---- MODULE Spec2Model ----
(***************************************************************************)
(* Model of the file handles (common/file.cpp) and of the Yuza filesystem  *)
(* node backend (backends/fs/yuza/yuza-fs.cpp) and of the save manager     *)
(* (common/savefile.h) and of the Lua configuration file proxy             *)
(* (common/lua/scummvm_file.cpp) of scummvm4yuza.                          *)
(*                                                                         *)
(* Strings are sequences of one-character strings.  A failed assert() is   *)
(* the process ending: aborted becomes TRUE and no operation runs after.   *)
(***************************************************************************)
EXTENDS Integers, Sequences, FiniteSets, TLC

VARIABLES
    build,      \* the preprocessor configuration yuza-fs.cpp is compiled under
    fs,         \* the host filesystem: normalized path -> kind of the entry
    denied,     \* paths the host refuses to create, to write or to enumerate
    members,    \* SearchMan: the names hasFile() answers true for
    openable,   \* SearchMan: the names createReadStreamForMember() opens
    fHandle,    \* File::_handle
    fName,      \* File::_name
    dHandle,    \* DumpFile::_handle
    live,       \* the stream objects allocated and not yet deleted
    node,       \* the filesystem node the caller holds
    list,       \* the caller's AbstractFSList
    aborted,    \* the process was ended by a failed assert()
    call,       \* the operation that ran last, with its arguments
    ret,        \* what that operation returned
    trace,      \* the calls that operation made to its collaborators, in order
    error,      \* SaveFileManager::_error
    errorDesc,  \* SaveFileManager::_errorDesc
    lockedFiles, \* the save manager's list of locked names
    saves,      \* the save entries in storage: name -> content
    sret,       \* the error code or description a save manager call returned
    settings,   \* LuaFileProxy::_settings
    readTo      \* the highest offset of its argument the last write() read

vars == <<build, fs, denied, members, openable, fHandle, fName, dHandle, live,
          node, list, aborted, call, ret, trace,
          error, errorDesc, lockedFiles, saves, sret, settings, readTo>>

fsVars == <<build, fs, denied>>
archVars == <<members, openable>>
nodeVars == <<node, list>>
saveVars == <<error, errorDesc, lockedFiles, saves, sret>>
luaVars == <<settings, readTo>>

---------------------------------------------------------------------------
(* Bounds of the model.                                                    *)

MaxNameLen == 1
MaxMembers == 2
MaxStreamSize == 1
MaxFsEntries == 5
MaxListLen == 1
MaxInputLen == 3
MaxBehind == 1

---------------------------------------------------------------------------
(* Strings.                                                                *)

Garbage == "garbage"

Slash == "/"
Backslash == "\\"
Dot == "."

RECURSIVE SeqsUpTo(_, _)
SeqsUpTo(chars, n) ==
    IF n = 0 THEN {<<>>}
    ELSE LET shorter == SeqsUpTo(chars, n - 1)
         IN  shorter \cup {Append(s, c) : s \in shorter, c \in chars}

RECURSIVE SubsetsUpTo(_, _)
\* the subsets of S with at most n elements
SubsetsUpTo(S, n) ==
    IF n = 0 THEN {{}}
    ELSE LET smaller == SubsetsUpTo(S, n - 1)
         IN  smaller \cup {m \cup {x} : m \in smaller, x \in S}

Contains(s, c) == \E i \in 1..Len(s) : s[i] = c

LastChar(s) == IF Len(s) = 0 THEN "" ELSE s[Len(s)]

\* String::erase(p) with the default length: cuts the string to its first p characters
Erase(s, p) == SubSeq(s, 1, p)

RECURSIVE SplitAt(_, _, _, _)
\* the components of s between separators (empty ones included), left to right
SplitAt(s, sep, i, cur) ==
    IF i > Len(s) THEN <<cur>>
    ELSE IF s[i] = sep THEN <<cur>> \o SplitAt(s, sep, i + 1, <<>>)
    ELSE SplitAt(s, sep, i + 1, Append(cur, s[i]))

RECURSIVE PushComponents(_, _)
\* the component stack of normalizePath after scanning comps
PushComponents(comps, stack) ==
    IF comps = <<>> THEN stack
    ELSE LET c == Head(comps)
             next == IF c = <<>> \/ c = <<Dot>> THEN stack
                     ELSE IF stack # <<>> /\ c = <<Dot, Dot>>
                             /\ stack[Len(stack)] # <<Dot, Dot>>
                          THEN SubSeq(stack, 1, Len(stack) - 1)
                     ELSE Append(stack, c)
         IN  PushComponents(Tail(comps), next)

RECURSIVE JoinWith(_, _)
JoinWith(comps, sep) ==
    IF comps = <<>> THEN <<>>
    ELSE IF Len(comps) = 1 THEN comps[1]
    ELSE comps[1] \o <<sep>> \o JoinWith(Tail(comps), sep)

\* Common::normalizePath: a leading separator is kept once, empty and "."
\* components are dropped, ".." removes the component before it
normalizePath(path, sep) ==
    IF path = <<>> THEN path
    ELSE (IF path[1] = sep THEN <<sep>> ELSE <<>>)
         \o JoinWith(PushComponents(SplitAt(path, sep, 1, <<>>), <<>>), sep)

RECURSIVE StripTrailing(_, _)
StripTrailing(s, sep) ==
    IF s # <<>> /\ s[Len(s)] = sep THEN StripTrailing(SubSeq(s, 1, Len(s) - 1), sep)
    ELSE s

\* Common::lastPathComponent
lastPathComponent(path, sep) ==
    LET s == StripTrailing(path, sep)
        comps == SplitAt(s, sep, 1, <<>>)
    IN  IF s = <<>> THEN <<>> ELSE comps[Len(comps)]

---------------------------------------------------------------------------
(* The host filesystem, as the calls of yuza-fs.cpp see it.                *)

Builds == {"SKYOS32", "D_TYPE", "NO_D_TYPE"}

Kinds == {"dir", "file", "link_dir", "link_file", "link_dead", "fifo"}

Root == <<Slash>>

\* the path with its last component cut off; <<>> is the working directory
DirName(p) ==
    LET comps == SplitAt(p, Slash, 1, <<>>)
        cut == Len(p) - Len(comps[Len(comps)])
    IN  IF cut <= 1 THEN SubSeq(p, 1, cut) ELSE SubSeq(p, 1, cut - 1)

\* a path lookup follows symbolic links; a dangling link resolves to nothing
Resolves(f, p) == p \in DOMAIN f /\ f[p] # "link_dead"

IsDirAt(f, p) == p = <<>> \/ (p \in DOMAIN f /\ f[p] \in {"dir", "link_dir"})

\* access(path, F_OK) == 0
HostAccess(f, p) == Resolves(f, p)

\* the st_mode the host reports: 0 for a directory
HostMode(kind) == IF kind \in {"dir", "link_dir"} THEN 0 ELSE 1

\* stat(path, &st)
HostStat(f, p) ==
    IF Resolves(f, p) THEN [ok |-> TRUE, st_mode |-> HostMode(f[p])]
    ELSE [ok |-> FALSE, st_mode |-> Garbage]

\* S_ISDIR(m): (m & S_IFMT) == S_IFDIR
S_ISDIR(m) == (m \div 4096) % 16 = 4

CanCreate(f, d, p) ==
    /\ p # <<>>
    /\ p \notin DOMAIN f
    /\ IsDirAt(f, DirName(p))
    /\ p \notin d
    /\ Cardinality(DOMAIN f) < MaxFsEntries

\* mkdir(path, 0): creates the last component only
HostMkdir(f, d, p) ==
    IF p \in DOMAIN f THEN [ok |-> FALSE, errno |-> "EEXIST", fs |-> f]
    ELSE IF CanCreate(f, d, p)
         THEN [ok |-> TRUE, errno |-> "0", fs |-> (p :> "dir") @@ f]
    ELSE [ok |-> FALSE, errno |-> "ENOENT", fs |-> f]

\* opening a path for writing creates a missing regular file
HostOpenWrite(f, d, p) ==
    IF p \in DOMAIN f
    THEN [ok |-> f[p] \in {"file", "link_file"} /\ p \notin d, fs |-> f]
    ELSE IF CanCreate(f, d, p) THEN [ok |-> TRUE, fs |-> (p :> "file") @@ f]
    ELSE [ok |-> FALSE, fs |-> f]

HostOpenRead(f, p) == p \in DOMAIN f /\ f[p] \in {"file", "link_file"}

---------------------------------------------------------------------------
(* YuzaFilesystemNode.                                                     *)

NoNode == [path |-> <<>>, displayName |-> <<>>, isValid |-> FALSE,
           isDirectory |-> FALSE, made |-> FALSE]

\* setFlags taking a path that cannot be queried for a directory
setFlags_DirectoryWhenFailed(f, n) ==
    LET st == HostStat(f, n.path)
    IN  [n EXCEPT !.isValid = st.ok,
                  !.isDirectory = IF st.ok THEN st.st_mode = 0 ELSE TRUE]

\* lines 77-84: both flags from stat() of the path
setFlags(f, n) ==
    LET st == HostStat(f, n.path)
    IN  [n EXCEPT !.isValid = st.ok,
                  !.isDirectory = IF st.ok THEN st.st_mode = 0 ELSE FALSE]

\* YuzaFilesystemNode(p), p not empty
MakeNode(b, f, p) ==
    IF b = "SKYOS32" /\ p = Root
    THEN [path |-> p, displayName |-> p, isValid |-> FALSE,
          isDirectory |-> TRUE, made |-> TRUE]
    ELSE LET path == normalizePath(p, Slash)
         IN  setFlags(f, [path |-> path,
                          displayName |-> lastPathComponent(path, Slash),
                          isValid |-> FALSE, isDirectory |-> FALSE,
                          made |-> TRUE])

NodeExists(f, n) == HostAccess(f, n.path)

\* createDirectory(): the node after the call, its result and the filesystem
createDirectory(f, d, n) ==
    LET mk == HostMkdir(f, d, n.path)
        after == IF mk.ok THEN setFlags(mk.fs, n) ELSE n
    IN  [node |-> after, result |-> after.isValid /\ after.isDirectory,
         fs |-> mk.fs, mkdirOk |-> mk.ok]

---------------------------------------------------------------------------
(* Streams: what a File or a DumpFile is bound to.  A stream is an object  *)
(* with an identity; id 0 is the null pointer.                             *)

NullStream == [id |-> 0, dir |-> "none", size |-> 0, pos |-> 0,
               eos |-> FALSE, err |-> FALSE]

IsNull(h) == h.id = 0

\* the address a newly allocated stream gets: one no live stream has
FreshId == CHOOSE i \in 1..(Cardinality(live) + 1) : i \notin live

NewReadStream(size) == [id |-> FreshId, dir |-> "r", size |-> size, pos |-> 0,
                        eos |-> FALSE, err |-> FALSE]

NewWriteStream == [id |-> FreshId, dir |-> "w", size |-> 0, pos |-> 0,
                   eos |-> FALSE, err |-> FALSE]

Whences == {"SEEK_SET", "SEEK_CUR", "SEEK_END"}

RetVoid == [kind |-> "void", b |-> FALSE, n |-> 0]
RetBool(b) == [kind |-> "bool", b |-> b, n |-> 0]
RetInt(n) == [kind |-> "int", b |-> FALSE, n |-> n]
RetGarbage == [kind |-> "garbage", b |-> FALSE, n |-> 0]

Min(a, b) == IF a < b THEN a ELSE b

\* SeekableReadStream and WriteStream: the result of a method and the stream after it
Stream_err(s) == [ret |-> RetBool(s.err), stream |-> s]
Stream_clearErr(s) == [ret |-> RetVoid, stream |-> [s EXCEPT !.err = FALSE, !.eos = FALSE]]
Stream_eos(s) == [ret |-> RetBool(s.eos), stream |-> s]
Stream_pos(s) == [ret |-> RetInt(s.pos), stream |-> s]
Stream_size(s) == [ret |-> RetInt(s.size), stream |-> s]
Stream_seek(s, offs, whence) ==
    LET base == IF whence = "SEEK_SET" THEN 0
                ELSE IF whence = "SEEK_CUR" THEN s.pos ELSE s.size
        target == base + offs
    IN  IF target >= 0 /\ target <= s.size
        THEN [ret |-> RetBool(TRUE), stream |-> [s EXCEPT !.pos = target, !.eos = FALSE]]
        ELSE [ret |-> RetBool(FALSE), stream |-> s]
Stream_read(s, len) ==
    LET n == Min(len, s.size - s.pos)
    IN  [ret |-> RetInt(n),
         stream |-> [s EXCEPT !.pos = s.pos + n, !.eos = s.eos \/ len > n]]
\* a write stores what the host accepts; a short write sets the error flag
Stream_write(s, len) ==
    LET n == Min(len, MaxStreamSize - s.pos)
    IN  [ret |-> RetInt(n),
         stream |-> [s EXCEPT !.pos = s.pos + n, !.size = s.pos + n,
                              !.err = s.err \/ n < len]]
Stream_flush(s) == [ret |-> RetBool(~s.err), stream |-> s]

---------------------------------------------------------------------------
(* Calls and what they leave behind.                                       *)

Call(op) == [op |-> op, name |-> <<>>, a |-> 0, w |-> "", flag |-> FALSE]
CallName(op, name) == [Call(op) EXCEPT !.name = name]

Ev(fn, arg, ok) == [fn |-> fn, arg |-> arg, ok |-> ok]

\* a failed assert(): the process ends where it stands
Abort(c) ==
    /\ aborted' = TRUE
    /\ call' = c
    /\ ret' = RetVoid
    /\ trace' = <<>>
    /\ UNCHANGED <<fsVars, archVars, luaVars, saveVars, nodeVars, fHandle, fName, dHandle, live>>

---------------------------------------------------------------------------
(* SearchMan, the default search-path resolver.                            *)

NameChars == {"g", Dot}
FileNames == SeqsUpTo(NameChars, MaxNameLen)
MemberNames == SeqsUpTo(NameChars, MaxNameLen + 2) \ {<<>>}

hasFile(name) == name \in members
canOpenMember(name) == name \in openable

---------------------------------------------------------------------------
(* Common::File.                                                           *)

\* File::open without the trailing-dot retry
File_resolve_NoRetry(filename) ==
    [lookups |-> <<Ev("createReadStreamForMember", filename, canOpenMember(filename))>>,
     found |-> canOpenMember(filename)]

\* File::open(filename, archive): the lookups made, in order, and whether
\* the last of them gave a stream
File_resolve(filename) ==
    IF canOpenMember(filename)
    THEN [lookups |-> <<Ev("createReadStreamForMember", filename, TRUE)>>,
          found |-> TRUE]
    ELSE [lookups |-> <<Ev("createReadStreamForMember", filename, FALSE),
                        Ev("createReadStreamForMember", Append(filename, Dot),
                           canOpenMember(Append(filename, Dot)))>>,
          found |-> canOpenMember(Append(filename, Dot))]

\* File::open(stream, name) storing the name whatever the stream is
File_bind_NameAlways(stream, name) ==
    IF ~IsNull(stream)
    THEN [handle |-> stream, name |-> name, ret |-> RetBool(TRUE)]
    ELSE [handle |-> fHandle, name |-> name, ret |-> RetBool(~IsNull(fHandle))]

\* File::open(stream, name), the handle closed: the handle, the name and the result
File_bind(stream, name) ==
    IF ~IsNull(stream)
    THEN [handle |-> stream, name |-> name, ret |-> RetBool(TRUE)]
    ELSE [handle |-> fHandle, name |-> fName, ret |-> RetBool(~IsNull(fHandle))]

\* File::exists that also accepts a second trailing dot
File_exists_TwoDots(filename) ==
    LET dot == Append(filename, Dot)
        dots == Append(dot, Dot)
    IN  IF hasFile(filename)
        THEN [lookups |-> <<Ev("hasFile", filename, TRUE)>>, found |-> TRUE]
        ELSE [lookups |-> <<Ev("hasFile", filename, FALSE), Ev("hasFile", dot, hasFile(dot)),
                            Ev("hasFile", dots, hasFile(dots))>>,
              found |-> hasFile(dot) \/ hasFile(dots)]

\* File::exists without the trailing-dot retry
File_exists_ExactOnly(filename) ==
    [lookups |-> <<Ev("hasFile", filename, hasFile(filename))>>,
     found |-> hasFile(filename)]

\* File::exists(filename): the lookups made and the answer
File_exists(filename) ==
    IF hasFile(filename)
    THEN [lookups |-> <<Ev("hasFile", filename, TRUE)>>, found |-> TRUE]
    ELSE [lookups |-> <<Ev("hasFile", filename, FALSE),
                        Ev("hasFile", Append(filename, Dot),
                           hasFile(Append(filename, Dot)))>>,
          found |-> hasFile(Append(filename, Dot))]

File_err(h) == Stream_err(h)
File_clearErr(h) == Stream_clearErr(h)
File_eos(h) == Stream_eos(h)
File_pos(h) == Stream_pos(h)
\* File::size() answering with the position
File_size_AsPos(h) == Stream_pos(h)
File_size(h) == Stream_size(h)
File_seek(h, offs, whence) == Stream_seek(h, offs, whence)
File_read(h, len) == Stream_read(h, len)

FileBound(c, stream, name, tr) ==
    LET r == File_bind(stream, name)
    IN  /\ fHandle' = r.handle
        /\ fName' = r.name
        /\ ret' = r.ret
        /\ live' = IF IsNull(stream) THEN live ELSE live \cup {stream.id}
        /\ call' = c
        /\ trace' = tr
        /\ UNCHANGED <<fsVars, archVars, luaVars, saveVars, nodeVars, dHandle, aborted>>

\* the length of the stream a member or a host file opens as
MemberSize(name) == Min(Len(name), MaxStreamSize)

FileOpenName(filename) ==
    /\ ~aborted
    /\ LET c == CallName("File::open(name)", filename)
       IN  IF filename = <<>> \/ ~IsNull(fHandle) THEN Abort(c)
           ELSE LET r == File_resolve(filename)
                IN  FileBound(c, IF r.found
                                 THEN NewReadStream(MemberSize(r.lookups[Len(r.lookups)].arg))
                                 ELSE NullStream,
                              filename, r.lookups)

FileOpenNode ==
    /\ ~aborted
    /\ node.made
    /\ LET c == CallName("File::open(node)", node.path)
       IN  IF ~IsNull(fHandle) THEN Abort(c)
           ELSE IF ~NodeExists(fs, node) \/ node.isDirectory
           THEN /\ ret' = RetBool(FALSE)
                /\ call' = c
                /\ trace' = <<>>
                /\ UNCHANGED <<fsVars, archVars, luaVars, saveVars, nodeVars, fHandle, fName,
                               dHandle, live, aborted>>
           ELSE LET ok == HostOpenRead(fs, node.path)
                IN  FileBound(c, IF ok THEN NewReadStream(MaxStreamSize) ELSE NullStream,
                              node.path, <<Ev("createReadStream", node.path, ok)>>)

\* File::open(stream, name) without its assert(!_handle)
FileOpenStream_NoAssert(given, name, size) ==
    /\ ~aborted
    /\ FileBound([CallName("File::open(stream)", name) EXCEPT !.flag = given],
                 IF given THEN NewReadStream(size) ELSE NullStream, name, <<>>)

\* the caller hands in a stream it got elsewhere, or a null pointer
FileOpenStream(given, name, size) ==
    /\ ~aborted
    /\ LET c == [CallName("File::open(stream)", name) EXCEPT !.flag = given]
           stream == IF given THEN NewReadStream(size) ELSE NullStream
       IN  IF ~IsNull(fHandle)
           THEN /\ aborted' = TRUE
                /\ call' = c
                /\ ret' = RetVoid
                /\ trace' = <<>>
                /\ live' = IF given THEN live \cup {stream.id} ELSE live
                /\ UNCHANGED <<fsVars, archVars, luaVars, saveVars, nodeVars, fHandle, fName, dHandle>>
           ELSE FileBound(c, stream, name, <<>>)

FileExists(filename) ==
    /\ ~aborted
    /\ LET r == File_exists(filename)
       IN  /\ ret' = RetBool(r.found)
           /\ trace' = r.lookups
    /\ call' = CallName("File::exists", filename)
    /\ UNCHANGED <<fsVars, archVars, luaVars, saveVars, nodeVars, fHandle, fName, dHandle, live, aborted>>

\* File::close() that deletes the stream and keeps the pointer
FileClose_KeepsPointer ==
    /\ ~aborted
    /\ live' = live \ {fHandle.id}
    /\ call' = Call("File::close")
    /\ ret' = RetVoid
    /\ trace' = <<>>
    /\ UNCHANGED <<fsVars, archVars, luaVars, saveVars, nodeVars, fHandle, fName, dHandle, aborted>>

FileClose ==
    /\ ~aborted
    /\ live' = live \ {fHandle.id}
    /\ fHandle' = NullStream
    /\ call' = Call("File::close")
    /\ ret' = RetVoid
    /\ trace' = <<>>
    /\ UNCHANGED <<fsVars, archVars, luaVars, saveVars, nodeVars, fName, dHandle, aborted>>

\* ~File() runs close(); a File made afterwards has no stream and no name
FileDestroy ==
    /\ ~aborted
    /\ live' = live \ {fHandle.id}
    /\ fHandle' = NullStream
    /\ fName' = <<>>
    /\ call' = Call("File::~File")
    /\ ret' = RetVoid
    /\ trace' = <<>>
    /\ UNCHANGED <<fsVars, archVars, luaVars, saveVars, nodeVars, dHandle, aborted>>

FileIsOpen ==
    /\ ~aborted
    /\ call' = Call("File::isOpen")
    /\ ret' = RetBool(~IsNull(fHandle))
    /\ trace' = <<>>
    /\ UNCHANGED <<fsVars, archVars, luaVars, saveVars, nodeVars, fHandle, fName, dHandle, live, aborted>>

\* an accessor: assert(_handle), then the stream's own method
FileAccess(c, r) ==
    /\ ~aborted
    /\ IF IsNull(fHandle) THEN Abort(c)
       ELSE /\ fHandle' = r.stream
            /\ ret' = r.ret
            /\ call' = c
            /\ trace' = <<>>
            /\ UNCHANGED <<fsVars, archVars, luaVars, saveVars, nodeVars, fName, dHandle, live, aborted>>

FileErr == FileAccess(Call("File::err"), File_err(fHandle))
FileClearErr == FileAccess(Call("File::clearErr"), File_clearErr(fHandle))
FileEos == FileAccess(Call("File::eos"), File_eos(fHandle))
FilePos == FileAccess(Call("File::pos"), File_pos(fHandle))
FileSize == FileAccess(Call("File::size"), File_size(fHandle))
FileSeek(offs, whence) ==
    FileAccess([Call("File::seek") EXCEPT !.a = offs, !.w = whence],
               File_seek(fHandle, offs, whence))
FileRead(len) ==
    FileAccess([Call("File::read") EXCEPT !.a = len], File_read(fHandle, len))

\* the host reports an I/O error on the stream a File is bound to
StreamFails ==
    /\ ~aborted
    /\ ~IsNull(fHandle)
    /\ ~fHandle.err
    /\ fHandle' = [fHandle EXCEPT !.err = TRUE]
    /\ call' = Call("host: read error")
    /\ ret' = RetVoid
    /\ trace' = <<>>
    /\ UNCHANGED <<fsVars, archVars, luaVars, saveVars, nodeVars, fName, dHandle, live, aborted>>

NodeMake(p) ==
    /\ ~aborted
    /\ call' = CallName("YuzaFilesystemNode", p)
    /\ IF p = <<>> THEN Abort(CallName("YuzaFilesystemNode", p))
       ELSE /\ node' = MakeNode(build, fs, p)
            /\ ret' = RetVoid
            /\ trace' = <<>>
            /\ UNCHANGED <<fsVars, archVars, luaVars, saveVars, list, fHandle, fName, dHandle, live, aborted>>

---------------------------------------------------------------------------
(* Common::DumpFile.                                                       *)

RECURSIVE DumpFile_bootstrap_BreakOnExisting(_, _, _, _, _, _)
\* the createPath loop leaving the loop at the first prefix that exists
DumpFile_bootstrap_BreakOnExisting(b, f, d, filename, i, tr) ==
    IF i >= Len(filename) THEN [fs |-> f, trace |-> tr]
    ELSE IF filename[i + 1] \notin {Slash, Backslash} \/ Erase(filename, i) = <<>>
    THEN DumpFile_bootstrap_BreakOnExisting(b, f, d, filename, i + 1, tr)
    ELSE LET n == MakeNode(b, f, Erase(filename, i))
         IN  IF NodeExists(f, n)
             THEN [fs |-> f, trace |-> tr \o <<Ev("makeFileNodePath", n.path, TRUE),
                                               Ev("exists", n.path, TRUE),
                                               Ev("delete", n.path, TRUE)>>]
             ELSE LET cd == createDirectory(f, d, n)
                  IN  DumpFile_bootstrap_BreakOnExisting(b, cd.fs, d, filename, i + 1,
                          tr \o <<Ev("makeFileNodePath", n.path, TRUE),
                                  Ev("exists", n.path, FALSE),
                                  Ev("createDirectory", n.path, cd.result),
                                  Ev("delete", n.path, TRUE)>>)

RECURSIVE DumpFile_bootstrap_LeakOnExisting(_, _, _, _, _, _)
\* the createPath loop forgetting the node of a prefix that exists
DumpFile_bootstrap_LeakOnExisting(b, f, d, filename, i, tr) ==
    IF i >= Len(filename) THEN [fs |-> f, trace |-> tr]
    ELSE IF filename[i + 1] \notin {Slash, Backslash} \/ Erase(filename, i) = <<>>
    THEN DumpFile_bootstrap_LeakOnExisting(b, f, d, filename, i + 1, tr)
    ELSE LET n == MakeNode(b, f, Erase(filename, i))
         IN  IF NodeExists(f, n)
             THEN DumpFile_bootstrap_LeakOnExisting(b, f, d, filename, i + 1,
                      tr \o <<Ev("makeFileNodePath", n.path, TRUE),
                              Ev("exists", n.path, TRUE)>>)
             ELSE LET cd == createDirectory(f, d, n)
                  IN  DumpFile_bootstrap_LeakOnExisting(b, cd.fs, d, filename, i + 1,
                          tr \o <<Ev("makeFileNodePath", n.path, TRUE),
                                  Ev("exists", n.path, FALSE),
                                  Ev("createDirectory", n.path, cd.result),
                                  Ev("delete", n.path, TRUE)>>)

RECURSIVE DumpFile_bootstrap(_, _, _, _, _, _)
\* the createPath loop of DumpFile::open from index i (counted from 0) on:
\* the filesystem it leaves and the node calls it made, the making of the
\* node on the heap and its delete among them
DumpFile_bootstrap(b, f, d, filename, i, tr) ==
    IF i >= Len(filename) THEN [fs |-> f, trace |-> tr]
    ELSE IF filename[i + 1] \notin {Slash, Backslash}
    THEN DumpFile_bootstrap(b, f, d, filename, i + 1, tr)
    ELSE LET subpath == Erase(filename, i)
         IN  IF subpath = <<>>
             THEN DumpFile_bootstrap(b, f, d, filename, i + 1, tr)
             ELSE LET n == MakeNode(b, f, subpath)
                  IN  IF NodeExists(f, n)
                      THEN DumpFile_bootstrap(b, f, d, filename, i + 1,
                               tr \o <<Ev("makeFileNodePath", n.path, TRUE),
                                       Ev("exists", n.path, TRUE),
                                       Ev("delete", n.path, TRUE)>>)
                      ELSE LET cd == createDirectory(f, d, n)
                           IN  DumpFile_bootstrap(b, cd.fs, d, filename, i + 1,
                                   tr \o <<Ev("makeFileNodePath", n.path, TRUE),
                                           Ev("exists", n.path, FALSE),
                                           Ev("createDirectory", n.path, cd.result),
                                           Ev("delete", n.path, TRUE)>>)

\* DumpFile::open(node), the handle closed: whether the write stream is asked
\* for, what the host answers and the filesystem after
DumpFile_openNode(f, d, n) ==
    IF n.isDirectory
    THEN [asked |-> FALSE, ok |-> FALSE, fs |-> f]
    ELSE LET ow == HostOpenWrite(f, d, n.path)
         IN  [asked |-> TRUE, ok |-> ow.ok, fs |-> ow.fs]

DumpFile_err(h) == Stream_err(h)
DumpFile_clearErr(h) == Stream_clearErr(h)
DumpFile_write(h, len) == Stream_write(h, len)
DumpFile_flush(h) == Stream_flush(h)
DumpFile_pos(h) == Stream_pos(h)
\* the delegation to the stream is commented out in this port
DumpFile_seek(h, offs, whence) == [ret |-> RetBool(FALSE), stream |-> h]
DumpFile_size(h) == [ret |-> RetInt(0 - 1), stream |-> h]

DumpBound(c, f, n, tr) ==
    LET r == DumpFile_openNode(f, denied, n)
        stream == IF r.ok THEN NewWriteStream ELSE NullStream
    IN  /\ dHandle' = stream
        /\ live' = IF r.ok THEN live \cup {stream.id} ELSE live
        /\ fs' = r.fs
        /\ ret' = RetBool(~IsNull(stream))
        /\ call' = c
        /\ trace' = IF r.asked THEN Append(tr, Ev("createWriteStream", n.path, r.ok))
                    ELSE tr
        /\ UNCHANGED <<build, denied, archVars, luaVars, saveVars, nodeVars, fHandle, fName, aborted>>

IsCreate(e) == e.fn = "createDirectory"

\* DumpFile::open(filename, createPath) giving up when a directory cannot be made
DumpOpenName_StrictBootstrap(filename, createPath) ==
    /\ ~aborted
    /\ LET c == [CallName("DumpFile::open(name)", filename) EXCEPT !.flag = createPath]
       IN  IF filename = <<>> \/ ~IsNull(dHandle) THEN Abort(c)
           ELSE LET boot == IF createPath
                            THEN DumpFile_bootstrap(build, fs, denied, filename, 0, <<>>)
                            ELSE [fs |-> fs, trace |-> <<>>]
                    cds == SelectSeq(boot.trace, IsCreate)
                IN  IF \E k \in 1..Len(cds) : ~cds[k].ok
                    THEN /\ fs' = boot.fs
                         /\ ret' = RetBool(FALSE)
                         /\ call' = c
                         /\ trace' = boot.trace
                         /\ UNCHANGED <<build, denied, archVars, luaVars, saveVars, nodeVars, fHandle,
                                        fName, dHandle, live, aborted>>
                    ELSE DumpBound(c, boot.fs, MakeNode(build, boot.fs, filename),
                                   boot.trace)

DumpOpenName(filename, createPath) ==
    /\ ~aborted
    /\ LET c == [CallName("DumpFile::open(name)", filename) EXCEPT !.flag = createPath]
       IN  IF filename = <<>> \/ ~IsNull(dHandle) THEN Abort(c)
           ELSE LET boot == IF createPath
                            THEN DumpFile_bootstrap(build, fs, denied, filename, 0, <<>>)
                            ELSE [fs |-> fs, trace |-> <<>>]
                IN  DumpBound(c, boot.fs, MakeNode(build, boot.fs, filename), boot.trace)

DumpOpenNode ==
    /\ ~aborted
    /\ node.made
    /\ LET c == CallName("DumpFile::open(node)", node.path)
       IN  IF ~IsNull(dHandle) THEN Abort(c)
           ELSE DumpBound(c, fs, node, <<>>)

DumpClose ==
    /\ ~aborted
    /\ live' = live \ {dHandle.id}
    /\ dHandle' = NullStream
    /\ call' = Call("DumpFile::close")
    /\ ret' = RetVoid
    /\ trace' = <<>>
    /\ UNCHANGED <<fsVars, archVars, luaVars, saveVars, nodeVars, fHandle, fName, aborted>>

\* ~DumpFile() runs close()
DumpDestroy ==
    /\ ~aborted
    /\ live' = live \ {dHandle.id}
    /\ dHandle' = NullStream
    /\ call' = Call("DumpFile::~DumpFile")
    /\ ret' = RetVoid
    /\ trace' = <<>>
    /\ UNCHANGED <<fsVars, archVars, luaVars, saveVars, nodeVars, fHandle, fName, aborted>>

DumpIsOpen ==
    /\ ~aborted
    /\ call' = Call("DumpFile::isOpen")
    /\ ret' = RetBool(~IsNull(dHandle))
    /\ trace' = <<>>
    /\ UNCHANGED <<fsVars, archVars, luaVars, saveVars, nodeVars, fHandle, fName, dHandle, live, aborted>>

DumpDone(c, r) ==
    /\ dHandle' = r.stream
    /\ ret' = r.ret
    /\ call' = c
    /\ trace' = <<>>
    /\ UNCHANGED <<fsVars, archVars, luaVars, saveVars, nodeVars, fHandle, fName, live, aborted>>

\* an accessor that starts with assert(_handle)
DumpAccess(c, r) ==
    /\ ~aborted
    /\ IF IsNull(dHandle) THEN Abort(c) ELSE DumpDone(c, r)

DumpErr == DumpAccess(Call("DumpFile::err"), DumpFile_err(dHandle))
DumpClearErr == DumpAccess(Call("DumpFile::clearErr"), DumpFile_clearErr(dHandle))
DumpWrite(len) ==
    DumpAccess([Call("DumpFile::write") EXCEPT !.a = len], DumpFile_write(dHandle, len))
DumpFlush == DumpAccess(Call("DumpFile::flush"), DumpFile_flush(dHandle))

\* pos() has no assert: on a closed handle it calls through a null pointer,
\* which either ends the process or hands back whatever it finds
DumpPos ==
    /\ ~aborted
    /\ IF IsNull(dHandle)
       THEN \/ Abort(Call("DumpFile::pos"))
            \/ DumpDone(Call("DumpFile::pos"), [ret |-> RetGarbage, stream |-> dHandle])
       ELSE DumpDone(Call("DumpFile::pos"), DumpFile_pos(dHandle))

\* seek() and size() never look at the handle
DumpSeek(offs, whence) ==
    /\ ~aborted
    /\ DumpDone([Call("DumpFile::seek") EXCEPT !.a = offs, !.w = whence],
                DumpFile_seek(dHandle, offs, whence))

DumpSize ==
    /\ ~aborted
    /\ DumpDone(Call("DumpFile::size"), DumpFile_size(dHandle))

---------------------------------------------------------------------------
(* YuzaFilesystemNode::getChildren.                                        *)

Modes == {"kListFilesOnly", "kListDirectoriesOnly", "kListAll"}

\* d_name[i], counted from 0; the character after the last is the NUL
CharAt(name, i) == IF i < Len(name) THEN name[i + 1] ELSE "NUL"

\* what the path of a directory entry is in the host filesystem
EntryPath(dir, name) ==
    IF LastChar(dir) # Slash THEN dir \o <<Slash>> \o name ELSE dir \o name

\* the names the host keeps in directory dir, besides "." and ".."
ChildNames(f, dir) ==
    {lastPathComponent(p, Slash) : p \in {q \in DOMAIN f : q # dir /\ DirName(q) = dir}}

\* opendir(path) != NULL
HostOpendir(f, d, p) == p \in DOMAIN f /\ f[p] \in {"dir", "link_dir"} /\ p \notin d

\* the d_type the host reports for an entry when it reports one
HostDType(f, dir, name) ==
    IF name \in {<<Dot>>, <<Dot, Dot>>} THEN "DT_DIR"
    ELSE LET k == f[EntryPath(dir, name)]
         IN  IF k = "dir" THEN "DT_DIR"
             ELSE IF k = "file" THEN "DT_REG"
             ELSE IF k = "fifo" THEN "DT_FIFO"
             ELSE "DT_LNK"

RECURSIVE Perms(_)
Perms(S) ==
    IF S = {} THEN {<<>>}
    ELSE UNION {{<<x>> \o t : t \in Perms(S \ {x})} : x \in S}

\* the sequences readdir() can hand out for a directory: every entry once, in any order
HostReaddir(f, dir, typed) ==
    {[i \in 1..Len(names) |->
        [d_name |-> names[i],
         d_type |-> IF typed THEN HostDType(f, dir, names[i]) ELSE "DT_UNKNOWN"]] :
     names \in Perms(ChildNames(f, dir) \cup {<<Dot>>, <<Dot, Dot>>})}

\* the name test that forgets the hidden flag
SkipEntry_IgnoresHidden(d_name, hidden) ==
    \/ CharAt(d_name, 0) = Dot /\ CharAt(d_name, 1) = "NUL"
    \/ CharAt(d_name, 0) = Dot /\ CharAt(d_name, 1) = Dot

\* lines 237-243: the entries left out because of their name
SkipEntry(d_name, hidden) ==
    \/ CharAt(d_name, 0) = Dot /\ ~hidden
    \/ CharAt(d_name, 0) = Dot /\ CharAt(d_name, 1) = "NUL"
    \/ CharAt(d_name, 0) = Dot /\ CharAt(d_name, 1) = Dot

\* lines 245-288: the node made for a directory entry, flags set
ClassifyEntry(b, f, n, dp) ==
    LET entry == [n EXCEPT !.displayName = dp.d_name,
                           !.path = EntryPath(n.path, dp.d_name)]
    IN  IF b \in {"SKYOS32", "NO_D_TYPE"} THEN setFlags(f, entry)
        ELSE IF dp.d_type = "DT_UNKNOWN" THEN setFlags(f, entry)
        ELSE LET st == HostStat(f, entry.path)
             IN  [entry EXCEPT
                    !.isValid = dp.d_type \in {"DT_DIR", "DT_REG", "DT_LNK"},
                    !.isDirectory = IF dp.d_type = "DT_LNK"
                                    THEN (IF st.ok THEN S_ISDIR(st.st_mode) ELSE FALSE)
                                    ELSE dp.d_type = "DT_DIR"]

\* the mode test taking files for directories
SkipMode_Inverted(mode, entry) ==
    \/ mode = "kListFilesOnly" /\ ~entry.isDirectory
    \/ mode = "kListDirectoriesOnly" /\ entry.isDirectory

\* lines 296-298: the entries left out because of the mode
SkipMode(mode, entry) ==
    \/ mode = "kListFilesOnly" /\ entry.isDirectory
    \/ mode = "kListDirectoriesOnly" /\ ~entry.isDirectory

RECURSIVE ReadLoop(_, _, _, _, _, _, _)
\* the readdir loop: the list after the entries ents
ReadLoop(b, f, n, ents, mode, hidden, lst) ==
    IF ents = <<>> THEN lst
    ELSE LET dp == Head(ents)
             entry == ClassifyEntry(b, f, n, dp)
             keep == ~SkipEntry(dp.d_name, hidden) /\ entry.isValid
                     /\ ~SkipMode(mode, entry)
         IN  ReadLoop(b, f, n, Tail(ents), mode, hidden,
                      IF keep THEN Append(lst, entry) ELSE lst)

\* getChildren reporting failure when it listed nothing
getChildren_FalseWhenEmpty(b, f, d, n, ents, mode, hidden, lst) ==
    IF ~HostOpendir(f, d, n.path) THEN [ret |-> FALSE, list |-> lst]
    ELSE LET l == ReadLoop(b, f, n, ents, mode, hidden, lst)
         IN  [ret |-> Len(l) > Len(lst), list |-> l]

\* getChildren on a directory node: the result and the caller's list after
getChildren(b, f, d, n, ents, mode, hidden, lst) ==
    IF ~HostOpendir(f, d, n.path) THEN [ret |-> FALSE, list |-> lst]
    ELSE [ret |-> TRUE, list |-> ReadLoop(b, f, n, ents, mode, hidden, lst)]

NodeGetChildren(mode, hidden) ==
    /\ ~aborted
    /\ node.made
    /\ Len(list) <= MaxListLen
    /\ LET c == [CallName("getChildren", node.path) EXCEPT !.w = mode, !.flag = hidden]
       IN  IF ~node.isDirectory THEN Abort(c)
           ELSE \E typed \in BOOLEAN :
                \E ents \in (IF HostOpendir(fs, denied, node.path)
                             THEN HostReaddir(fs, node.path, typed) ELSE {<<>>}) :
                   LET r == getChildren(build, fs, denied, node, ents, mode, hidden, list)
                       opened == HostOpendir(fs, denied, node.path)
                   IN  /\ list' = r.list
                       /\ ret' = RetBool(r.ret)
                       \* a = 1 when the host filled in d_type for the entries
                       /\ call' = [c EXCEPT !.a = IF typed THEN 1 ELSE 0]
                       /\ trace' = <<Ev("opendir", node.path, opened)>>
                                   \o (IF opened THEN <<Ev("closedir", node.path, TRUE)>>
                                       ELSE <<>>)
                       /\ UNCHANGED <<fsVars, archVars, luaVars, saveVars, node, fHandle, fName,
                                      dHandle, live, aborted>>

\* the caller starts a new list
ListClear ==
    /\ ~aborted
    /\ list # <<>>
    /\ list' = <<>>
    /\ call' = Call("list.clear")
    /\ ret' = RetVoid
    /\ trace' = <<>>
    /\ UNCHANGED <<fsVars, archVars, luaVars, saveVars, node, fHandle, fName, dHandle, live, aborted>>


---------------------------------------------------------------------------
(* YuzaFilesystemNode::getChild and YuzaFilesystemNode::getParent.         *)

\* makeNode(path): a new node built by the constructor
makeNode(b, f, p) == MakeNode(b, f, p)

\* the joined path that puts a '/' in even after a path ending in one
ChildPath_AlwaysSlash(path, n) == path \o <<Slash>> \o n

\* the joined path without the separator
ChildPath_NoSeparator(path, n) == path \o n

\* lines 163-166: newPath of getChild
ChildPath(path, n) ==
    (IF LastChar(path) # Slash THEN path \o <<Slash>> ELSE path) \o n

NodeGetChild(n) ==
    /\ ~aborted
    /\ node.made
    /\ LET c == CallName("getChild", n)
       IN  IF node.path = <<>> \/ ~node.isDirectory \/ Contains(n, Slash)
           THEN Abort(c)
           ELSE /\ node' = makeNode(build, fs, ChildPath(node.path, n))
                /\ call' = c
                /\ ret' = RetBool(TRUE)
                /\ trace' = <<Ev("makeNode", ChildPath(node.path, n), TRUE)>>
                /\ UNCHANGED <<fsVars, archVars, luaVars, saveVars, list, fHandle, fName, dHandle,
                               live, aborted>>

RECURSIVE StripLast(_)
\* lines 326-327: the path up to and with its last '/', empty when it has none
StripLast(s) ==
    IF s = <<>> \/ s[Len(s)] = Slash THEN s
    ELSE StripLast(SubSeq(s, 1, Len(s) - 1))

\* getParent without the test for the root
getParent_NoRootCase(path) ==
    IF StripLast(path) = <<>> THEN [some |-> FALSE, arg |-> <<>>]
    ELSE [some |-> TRUE, arg |-> StripLast(path)]

\* getParent(): whether a node is returned and the path it is made from
getParent(path) ==
    IF path = Root THEN [some |-> FALSE, arg |-> <<>>]
    ELSE IF StripLast(path) = <<>> THEN [some |-> FALSE, arg |-> <<>>]
    ELSE [some |-> TRUE, arg |-> StripLast(path)]

\* a null result leaves the caller with the node it had
NodeGetParent ==
    /\ ~aborted
    /\ node.made
    /\ LET r == getParent(node.path)
       IN  /\ node' = IF r.some THEN makeNode(build, fs, r.arg) ELSE node
           /\ call' = CallName("getParent", node.path)
           /\ ret' = RetBool(r.some)
           /\ trace' = IF r.some THEN <<Ev("makeNode", r.arg, TRUE)>> ELSE <<>>
           /\ UNCHANGED <<fsVars, archVars, luaVars, saveVars, list, fHandle, fName, dHandle,
                          live, aborted>>

\* the caller goes on with a node getChildren put in the list
ListTake(i) ==
    /\ ~aborted
    /\ i \in 1..Len(list)
    /\ node' = list[i]
    /\ call' = [Call("list[i]") EXCEPT !.a = i]
    /\ ret' = RetVoid
    /\ trace' = <<>>
    /\ UNCHANGED <<fsVars, archVars, luaVars, saveVars, list, fHandle, fName, dHandle, live, aborted>>

---------------------------------------------------------------------------
(* YuzaFilesystemNode::createDirectory and Posix::assureDirectoryExists.   *)

NodeCreateDirectory ==
    /\ ~aborted
    /\ node.made
    /\ LET cd == createDirectory(fs, denied, node)
       IN  /\ node' = cd.node
           /\ fs' = cd.fs
           /\ ret' = RetBool(cd.result)
           /\ call' = CallName("createDirectory", node.path)
           /\ trace' = <<Ev("mkdir", node.path, cd.mkdirOk)>>
           /\ UNCHANGED <<build, denied, archVars, luaVars, saveVars, list, fHandle, fName, dHandle,
                          live, aborted>>

\* lines 361-367: the check of a supplied prefix
PrefixAccepted(f, prefix) ==
    LET sb == HostStat(f, prefix)
    IN  sb.ok /\ S_ISDIR(sb.st_mode)

\* lines 369-379: the path the directories are made along
AssurePath(dir, hasPrefix, prefix) ==
    normalizePath(IF hasPrefix THEN prefix \o <<Slash>> \o dir ELSE dir, Slash)

RECURSIVE AssureLoop_FailOnExisting(_, _, _, _, _)
\* the loop taking a directory that is already there for an error
AssureLoop_FailOnExisting(f, d, path, cur, tr) ==
    LET end == Len(path)
        cut == cur + 1 # end
    IN  IF cut /\ CharAt(path, cur) # Slash
        THEN (IF cur = end THEN [ret |-> TRUE, fs |-> f, trace |-> tr]
              ELSE AssureLoop_FailOnExisting(f, d, path, cur + 1, tr))
        ELSE LET target == IF cut THEN SubSeq(path, 1, cur) ELSE path
                 mk == HostMkdir(f, d, target)
                 tr2 == Append(tr, Ev("mkdir", target, mk.ok))
             IN  IF ~mk.ok THEN [ret |-> FALSE, fs |-> f, trace |-> tr2]
                 ELSE IF cur = end THEN [ret |-> TRUE, fs |-> mk.fs, trace |-> tr2]
                 ELSE AssureLoop_FailOnExisting(mk.fs, d, path, cur + 1, tr2)

RECURSIVE AssureLoop_KeepsGoing(_, _, _, _, _)
\* the loop going on to the deeper segments after one could not be made
AssureLoop_KeepsGoing(f, d, path, cur, tr) ==
    LET end == Len(path)
        cut == cur + 1 # end
        good(t) == \A k \in 1..Len(t) :
                      (t[k].fn = "mkdir" /\ ~t[k].ok) => IsDirAt(f, t[k].arg)
    IN  IF cut /\ CharAt(path, cur) # Slash
        THEN (IF cur = end THEN [ret |-> good(tr), fs |-> f, trace |-> tr]
              ELSE AssureLoop_KeepsGoing(f, d, path, cur + 1, tr))
        ELSE LET target == IF cut THEN SubSeq(path, 1, cur) ELSE path
                 mk == HostMkdir(f, d, target)
                 tr2 == Append(tr, Ev("mkdir", target, mk.ok))
             IN  IF cur = end THEN [ret |-> good(tr2), fs |-> mk.fs, trace |-> tr2]
                 ELSE AssureLoop_KeepsGoing(mk.fs, d, path, cur + 1, tr2)

RECURSIVE AssureLoop(_, _, _, _, _)
\* lines 386-415: the do-while loop from the position cur (counted from 0) on.
\* Where path[cur] is a '/' before the last character the path is cut there,
\* at the last character it is taken whole; mkdir is called on it.
AssureLoop(f, d, path, cur, tr) ==
    LET end == Len(path)
        cut == cur + 1 # end
    IN  IF cut /\ CharAt(path, cur) # Slash
        THEN (IF cur = end THEN [ret |-> TRUE, fs |-> f, trace |-> tr]
              ELSE AssureLoop(f, d, path, cur + 1, tr))
        ELSE LET target == IF cut THEN SubSeq(path, 1, cur) ELSE path
                 mk == HostMkdir(f, d, target)
                 sb == HostStat(f, target)
                 tr2 == Append(tr, Ev("mkdir", target, mk.ok))
                 failed == /\ ~mk.ok
                           /\ \/ mk.errno # "EEXIST"
                              \/ ~sb.ok
                              \/ sb.st_mode # 0
             IN  IF failed THEN [ret |-> FALSE, fs |-> f, trace |-> tr2]
                 ELSE IF cur = end THEN [ret |-> TRUE, fs |-> mk.fs, trace |-> tr2]
                 ELSE AssureLoop(mk.fs, d, path, cur + 1, tr2)

\* Posix::assureDirectoryExists(dir, prefix): the result, the filesystem after
\* and the host calls made
assureDirectoryExists(f, d, dir, hasPrefix, prefix) ==
    LET probe == IF hasPrefix
                 THEN <<Ev("stat", prefix, HostStat(f, prefix).ok)>> ELSE <<>>
        path == AssurePath(dir, hasPrefix, prefix)
    IN  IF hasPrefix /\ ~PrefixAccepted(f, prefix)
        THEN [ret |-> FALSE, fs |-> f, trace |-> probe]
        ELSE AssureLoop(f, d, path, IF CharAt(path, 0) = Slash THEN 1 ELSE 0, probe)

AssureDirectoryExists(dir, hasPrefix, prefix) ==
    /\ ~aborted
    /\ LET r == assureDirectoryExists(fs, denied, dir, hasPrefix, prefix)
       IN  /\ fs' = r.fs
           /\ ret' = RetBool(r.ret)
           /\ call' = [CallName("assureDirectoryExists", dir) EXCEPT !.flag = hasPrefix]
           /\ trace' = r.trace
           /\ UNCHANGED <<build, denied, archVars, luaVars, saveVars, nodeVars, fHandle, fName, dHandle,
                          live, aborted>>

---------------------------------------------------------------------------
(* Common::SaveFileManager.  The error state and its accessors are the     *)
(* inline code of savefile.h; the operations on save entries are pure      *)
(* virtual there and follow the manager's written contract.                *)

ErrorCodes == {"kNoError", "kUnknownError", "kWritingFailed", "kPathDoesNotExist"}

SaveNames == {<<"s">>, <<"t">>}

\* an entry that is not in storage
NoEntry == "none"

\* the descriptions the operations set
LockedDesc == <<"l">>
MissingDesc == <<"m">>
StorageDesc == <<"f">>

NoSret == [code |-> "", desc |-> <<>>]

\* a new manager: a default Error, an empty description, nothing locked
SaveIdle ==
    /\ error = "kUnknownError"
    /\ errorDesc = <<>>
    /\ lockedFiles = <<>>
    /\ saves = [n \in SaveNames |-> NoEntry]
    /\ sret = NoSret

\* line 95
setError(e, d) == [error |-> e, errorDesc |-> d]

\* a clearError that forgets the description
clearError_KeepsDesc == [error |-> "kNoError", errorDesc |-> errorDesc]

\* line 103
clearError == [error |-> "kNoError", errorDesc |-> <<>>]

\* line 110
getError == [code |-> error, desc |-> <<>>]

\* line 117
getErrorDesc == [code |-> "", desc |-> errorDesc]

\* popErrorDesc(): the description, and the error state cleared
popErrorDesc == [ret |-> [code |-> "", desc |-> errorDesc], state |-> clearError]

\* an accessor of the error state ran: what it returned and the state it left
SaveErrorDone(c, r, st) ==
    /\ ~aborted
    /\ error' = st.error
    /\ errorDesc' = st.errorDesc
    /\ sret' = r
    /\ call' = c
    /\ ret' = RetVoid
    /\ trace' = <<>>
    /\ UNCHANGED <<fsVars, archVars, luaVars, nodeVars, fHandle, fName, dHandle, live, aborted,
                   lockedFiles, saves>>

SaveSetError(e, d) ==
    SaveErrorDone([CallName("setError", d) EXCEPT !.w = e], NoSret, setError(e, d))
SaveClearError == SaveErrorDone(Call("clearError"), NoSret, clearError)
SaveGetError == SaveErrorDone(Call("getError"), getError, setError(error, errorDesc))
SaveGetErrorDesc ==
    SaveErrorDone(Call("getErrorDesc"), getErrorDesc, setError(error, errorDesc))
SavePopErrorDesc == SaveErrorDone(Call("popErrorDesc"), popErrorDesc.ret, popErrorDesc.state)

IsLocked(locked, name) == \E i \in 1..Len(locked) : locked[i] = name

\* an update that adds the new names to the ones it had
updateSavefilesList_Merges(locked, lockedNames) == locked \o lockedNames

\* updateSavefilesList(lockedFiles): the list the manager keeps
updateSavefilesList(locked, lockedNames) == lockedNames

\* a manager operation failed: nothing stored changes, the error is set
SaveFailed(sv, e, d) == [ok |-> FALSE, saves |-> sv, state |-> setError(e, d)]

\* a manager operation went through: the error is cleared
SaveSucceeded(sv) == [ok |-> TRUE, saves |-> sv, state |-> clearError]

\* a removeSavefile that does not look at the locks
removeSavefile_IgnoresLock(locked, sv, name, storageOk) ==
    IF sv[name] = NoEntry THEN SaveFailed(sv, "kPathDoesNotExist", MissingDesc)
    ELSE IF ~storageOk THEN SaveFailed(sv, "kUnknownError", StorageDesc)
    ELSE SaveSucceeded([sv EXCEPT ![name] = NoEntry])

removeSavefile(locked, sv, name, storageOk) ==
    IF IsLocked(locked, name) THEN SaveFailed(sv, "kWritingFailed", LockedDesc)
    ELSE IF sv[name] = NoEntry THEN SaveFailed(sv, "kPathDoesNotExist", MissingDesc)
    ELSE IF ~storageOk THEN SaveFailed(sv, "kUnknownError", StorageDesc)
    ELSE SaveSucceeded([sv EXCEPT ![name] = NoEntry])

\* openForSaving(name): the entry is made anew when the handle is handed out
openForSaving(locked, sv, name, storageOk) ==
    IF IsLocked(locked, name) THEN SaveFailed(sv, "kWritingFailed", LockedDesc)
    ELSE IF ~storageOk THEN SaveFailed(sv, "kWritingFailed", StorageDesc)
    ELSE SaveSucceeded([sv EXCEPT ![name] = "new"])

\* renameSavefile(oldName, newName): the content moves to the new name
renameSavefile(locked, sv, oldName, newName, storageOk) ==
    IF IsLocked(locked, oldName) \/ IsLocked(locked, newName)
    THEN SaveFailed(sv, "kWritingFailed", LockedDesc)
    ELSE IF sv[oldName] = NoEntry THEN SaveFailed(sv, "kPathDoesNotExist", MissingDesc)
    ELSE IF ~storageOk THEN SaveFailed(sv, "kUnknownError", StorageDesc)
    ELSE IF oldName = newName THEN SaveSucceeded(sv)
    ELSE SaveSucceeded([sv EXCEPT ![newName] = sv[oldName], ![oldName] = NoEntry])

\* an operation on the entries ran
SaveDone(c, r, storageOk) ==
    /\ ~aborted
    /\ saves' = r.saves
    /\ error' = r.state.error
    /\ errorDesc' = r.state.errorDesc
    /\ ret' = RetBool(r.ok)
    /\ call' = c
    /\ trace' = <<Ev("storage", c.name, storageOk)>>
    /\ UNCHANGED <<fsVars, archVars, luaVars, nodeVars, fHandle, fName, dHandle, live, aborted,
                   lockedFiles, sret>>

SaveRemoveSavefile(name, storageOk) ==
    SaveDone(CallName("removeSavefile", name),
             removeSavefile(lockedFiles, saves, name, storageOk), storageOk)

SaveOpenForSaving(name, storageOk) ==
    SaveDone(CallName("openForSaving", name),
             openForSaving(lockedFiles, saves, name, storageOk), storageOk)

\* the call keeps the new name's single character
SaveRenameSavefile(oldName, newName, storageOk) ==
    SaveDone([CallName("renameSavefile", oldName) EXCEPT !.w = newName[1]],
             renameSavefile(lockedFiles, saves, oldName, newName, storageOk), storageOk)

\* the names handed over are kept in the trace, in order
SaveUpdateSavefilesList(lockedNames) ==
    /\ ~aborted
    /\ lockedFiles' = updateSavefilesList(lockedFiles, lockedNames)
    /\ call' = Call("updateSavefilesList")
    /\ ret' = RetVoid
    /\ trace' = [i \in 1..Len(lockedNames) |-> Ev("locked", lockedNames[i], TRUE)]
    /\ UNCHANGED <<fsVars, archVars, luaVars, nodeVars, fHandle, fName, dHandle, live, aborted,
                   error, errorDesc, saves, sret>>

---------------------------------------------------------------------------
(* Lua::LuaFileProxy::write.  The argument is a C string: its characters,  *)
(* the terminating NUL at offset strlen, and behind it whatever the memory *)
(* holds, up to the first byte that is not mapped.                         *)

LuaChars == {"-", "x", "LF", "CR"}
LuaInputs == SeqsUpTo(LuaChars, MaxInputLen)
LuaBehind == SeqsUpTo(LuaChars \cup {"NUL"}, MaxBehind)

Max(a, b) == IF a >= b THEN a ELSE b

\* *(ptr + i); reading a byte that is not mapped ends the process
ReadAt(mem, i) == IF i < Len(mem) THEN mem[i + 1] ELSE "FAULT"

RECURSIVE SkipComment(_, _)
\* lines 91-92: on to the next '\r' or '\n'; a NUL does not end the loop
SkipComment(mem, i) ==
    IF ReadAt(mem, i) \in {"CR", "LF", "FAULT"} THEN i ELSE SkipComment(mem, i + 1)

RECURSIVE SkipBreaks(_, _)
\* lines 97-98 and 104-105: over every '\r' and '\n'
SkipBreaks(mem, i) ==
    IF ReadAt(mem, i) \in {"CR", "LF"} THEN SkipBreaks(mem, i + 1) ELSE i

RECURSIVE LineEnd(_, _)
\* lines 95-96: strchr(ptr, '\n'), or ptr + strlen(ptr) when there is none
LineEnd(mem, i) ==
    IF ReadAt(mem, i) \in {"LF", "NUL", "FAULT"} THEN i ELSE LineEnd(mem, i + 1)

RECURSIVE LuaFileProxy_write(_, _, _, _)
\* lines 88-106 from ptr on (an offset into mem): the settings after, the
\* highest offset read, and whether a read left the mapped memory
LuaFileProxy_write(mem, ptr, st, far) ==
    LET c == ReadAt(mem, ptr)
        stop(i) == [settings |-> st, readTo |-> Max(far, i), fault |-> TRUE]
    IN  IF c = "FAULT" THEN stop(ptr)
        ELSE IF c = "NUL"
        THEN [settings |-> st, readTo |-> Max(far, ptr), fault |-> FALSE]
        ELSE IF c = "-" /\ ReadAt(mem, ptr + 1) = "FAULT" THEN stop(ptr + 1)
        ELSE IF c = "-" /\ ReadAt(mem, ptr + 1) = "-"
        THEN LET q == SkipComment(mem, ptr)
                 r == SkipBreaks(mem, q)
             IN  IF ReadAt(mem, q) = "FAULT" THEN stop(q)
                 ELSE LuaFileProxy_write(mem, r, st, Max(far, r))
        ELSE LET p == SkipBreaks(mem, LineEnd(mem, ptr))
             IN  IF ReadAt(mem, LineEnd(mem, ptr)) = "FAULT"
                 THEN stop(LineEnd(mem, ptr))
                 ELSE LuaFileProxy_write(
                          mem, p, st \o SubSeq(mem, ptr + 1, p), Max(far, p))

\* write(ptr, count) on a C string; behind is what lies after its NUL
LuaWrite(input, behind) ==
    /\ ~aborted
    /\ Len(settings) < MaxInputLen
    /\ LET r == LuaFileProxy_write(input \o <<"NUL">> \o behind, 0, settings, 0)
       IN  /\ settings' = r.settings
           /\ readTo' = r.readTo
           /\ aborted' = r.fault
           /\ ret' = IF r.fault THEN RetVoid ELSE RetInt(Len(input))
    /\ call' = CallName("LuaFileProxy::write", input)
    /\ trace' = <<>>
    /\ UNCHANGED <<fsVars, archVars, saveVars, nodeVars, fHandle, fName, dHandle, live>>

\* ~LuaFileProxy() hands the settings on; the next proxy starts without any
LuaDestroy ==
    /\ ~aborted
    /\ settings' = <<>>
    /\ readTo' = 0
    /\ call' = Call("LuaFileProxy::~LuaFileProxy")
    /\ ret' = RetVoid
    /\ trace' = <<>>
    /\ UNCHANGED <<fsVars, archVars, saveVars, nodeVars, fHandle, fName, dHandle, live,
                   aborted>>

---------------------------------------------------------------------------
(* Specifications.                                                         *)

IdleInit ==
    /\ fHandle = NullStream
    /\ fName = <<>>
    /\ dHandle = NullStream
    /\ live = {}
    /\ node = NoNode
    /\ list = <<>>
    /\ aborted = FALSE
    /\ call = Call("none")
    /\ ret = RetVoid
    /\ trace = <<>>
    /\ settings = <<>>
    /\ readTo = 0

OnlyRoot == (Root :> "dir")

\* Name resolution: File::open by name and File::exists over every small
\* resolver, at most one of its members failing to open
InitResolve ==
    /\ build = "SKYOS32"
    /\ fs = OnlyRoot
    /\ denied = {}
    /\ members \in SubsetsUpTo(MemberNames, MaxMembers)
    /\ openable \in {members} \cup {members \ {m} : m \in members}
    /\ IdleInit
    /\ SaveIdle

NextResolve ==
    \/ \E n \in FileNames : FileOpenName(n)
    \/ \E n \in FileNames : FileExists(n)
    \/ FileClose

SpecResolve == InitResolve /\ [][NextResolve]_vars

\* Both handles, every operation they have
HandleFs == OnlyRoot @@ (<<"f">> :> "file") @@ (<<"d">> :> "dir")
HandlePaths == {<<"f">>, <<"d">>, <<"x">>}
HandleNames == {<<>>, <<"g">>, <<Dot>>}
HandleDumps == {<<>>, <<"f">>, <<"d">>, <<"d", Slash, "n">>}

InitHandles ==
    /\ build = "SKYOS32"
    /\ fs = HandleFs
    /\ denied = {}
    /\ members = {<<"g", Dot>>}
    /\ openable = members
    /\ IdleInit
    /\ SaveIdle

NextHandles ==
    \/ \E n \in HandleNames : FileOpenName(n)
    \/ FileOpenNode
    \/ \E given \in BOOLEAN, n \in HandleNames \ {<<>>}, size \in {MaxStreamSize} :
          FileOpenStream(given, n, size)
    \/ FileClose
    \/ FileIsOpen
    \/ FileErr
    \/ FileClearErr
    \/ FileEos
    \/ FilePos
    \/ FileSize
    \/ \E offs \in (0 - 1)..MaxStreamSize, w \in Whences : FileSeek(offs, w)
    \/ \E len \in 0..(MaxStreamSize + 1) : FileRead(len)
    \/ StreamFails
    \/ \E p \in HandlePaths : NodeMake(p)
    \/ \E n \in HandleDumps, cp \in BOOLEAN : DumpOpenName(n, cp)
    \/ DumpOpenNode
    \/ DumpClose
    \/ DumpIsOpen
    \/ DumpErr
    \/ DumpClearErr
    \/ \E len \in 0..(MaxStreamSize + 1) : DumpWrite(len)
    \/ DumpFlush
    \/ DumpPos
    \/ \E offs \in {0, 1}, w \in {"SEEK_SET"} : DumpSeek(offs, w)
    \/ DumpSize

SpecHandles == InitHandles /\ [][NextHandles]_vars

\* DumpFile::open by name over small filesystems
DumpNames ==
    { <<"a">>,
      <<"a", Slash, "b">>,
      <<"a", Slash, "b", Slash, "c">>,
      <<Slash, "a", Slash, "b">>,
      <<"a", Slash, Slash, "b">>,
      <<"a", Backslash, "b">>,
      <<"a", Backslash, "b", Slash>>,
      <<"a", Slash>> }

DumpFsConfigs ==
    { OnlyRoot,
      OnlyRoot @@ (<<"a">> :> "file"),
      OnlyRoot @@ (<<"a">> :> "dir") @@ (<<"a", Slash, "b">> :> "file") }

DumpDenied == { {}, {<<"a", Slash, "b">>}, {<<"a">>} }

InitDump ==
    /\ build \in Builds
    /\ fs \in DumpFsConfigs
    /\ denied \in DumpDenied
    /\ members = {}
    /\ openable = {}
    /\ IdleInit
    /\ SaveIdle

NextDump ==
    \/ \E n \in DumpNames, cp \in BOOLEAN : DumpOpenName(n, cp)
    \/ DumpClose

SpecDump == InitDump /\ [][NextDump]_vars

\* The node backend over a small tree below the working directory
D == <<"d">>
K == <<"k">>
M == <<"m">>
E == <<"e">>
U == <<"u">>

NodeFs ==
    OnlyRoot
    @@ (D :> "dir") @@ (D \o <<Slash, "a">> :> "file") @@ (D \o <<Slash, Dot, "h">> :> "dir")
    @@ (K :> "dir") @@ (K \o <<Slash, Dot, Dot, "x">> :> "file")
    @@ (K \o <<Slash, "q">> :> "fifo")
    @@ (M :> "dir") @@ (M \o <<Slash, "l">> :> "link_dead")
    @@ (M \o <<Slash, "s">> :> "link_dir")
    @@ (E :> "dir")
    @@ (U :> "dir")

NodePaths == {<<>>, Root, D, K, M, E, U, D \o <<Slash, "a">>, <<"x">>, D \o <<Slash>>}

InitNode ==
    /\ build \in Builds
    /\ fs = NodeFs
    /\ denied = {U}
    /\ members = {}
    /\ openable = {}
    /\ IdleInit
    /\ SaveIdle

NextNode ==
    \/ \E p \in NodePaths : NodeMake(p)
    \/ \E mode \in Modes, hidden \in BOOLEAN : NodeGetChildren(mode, hidden)
    \/ ListClear

SpecNode == InitNode /\ [][NextNode]_vars

\* Ownership: the handles opened, closed and destroyed, directories listed
\* and paths bootstrapped over one small filesystem
OwnFs == OnlyRoot @@ (<<"a">> :> "dir") @@ (<<"a", Slash, "f">> :> "file")
OwnNames == {<<"g">>, <<Dot>>}
OwnPaths == {<<"a">>, <<"a", Slash, "f">>, <<"x">>}
OwnDumps == {<<"a">>, <<"a", Slash, "f">>, <<"b", Slash, "c">>}

InitOwn ==
    /\ build \in Builds
    /\ fs = OwnFs
    /\ denied = {}
    /\ members = {<<"g">>}
    /\ openable = members
    /\ IdleInit
    /\ SaveIdle

NextOwn ==
    \/ \E n \in OwnNames : FileOpenName(n)
    \/ FileOpenNode
    \/ \E given \in BOOLEAN : FileOpenStream(given, <<"g">>, MaxStreamSize)
    \/ FileClose
    \/ FileDestroy
    \/ \E n \in OwnDumps, cp \in BOOLEAN : DumpOpenName(n, cp)
    \/ DumpOpenNode
    \/ DumpClose
    \/ DumpDestroy
    \/ \E q \in OwnPaths : NodeMake(q)
    \/ \E mode \in Modes, hidden \in BOOLEAN : NodeGetChildren(mode, hidden)
    \/ ListClear

SpecOwn == InitOwn /\ [][NextOwn]_vars

\* The Lua configuration proxy: writes of every short C string
InitLua ==
    /\ build = "SKYOS32"
    /\ fs = OnlyRoot
    /\ denied = {}
    /\ members = {}
    /\ openable = {}
    /\ IdleInit
    /\ SaveIdle

NextLua ==
    \/ \E input \in LuaInputs, behind \in LuaBehind : LuaWrite(input, behind)
    \/ LuaDestroy

SpecLua == InitLua /\ [][NextLua]_vars

\* Paths: nodes made from strings, by getChild, getParent and getChildren
PathFs ==
    OnlyRoot
    @@ (D :> "dir") @@ (D \o <<Slash, "k">> :> "dir")
    @@ (D \o <<Slash, "k", Slash, "a">> :> "file")
    @@ (<<Slash, "r">> :> "dir") @@ (<<Slash, "r", Slash, "a">> :> "file")

PathArgs ==
    {<<>>, Root, <<Dot>>, <<Dot, Dot>>, D, D \o <<Slash, Dot, Dot>>,
     <<Slash, Dot, Dot>>, <<Slash, Slash, "r", Slash>>, D \o <<Slash, Slash, "k">>,
     D \o <<Slash, Dot, Slash, "k", Slash, "a">>, <<"x", Slash, "y">>}

ChildArgs ==
    {<<>>, <<"k">>, <<"a">>, <<Dot>>, <<Dot, Dot>>, <<"k", Slash>>, <<Slash>>}

InitPath ==
    /\ build \in Builds
    /\ fs = PathFs
    /\ denied = {}
    /\ members = {}
    /\ openable = {}
    /\ IdleInit
    /\ SaveIdle

NextPath ==
    \/ \E p \in PathArgs : NodeMake(p)
    \/ \E n \in ChildArgs : NodeGetChild(n)
    \/ NodeGetParent
    \/ \E mode \in Modes, hidden \in BOOLEAN : NodeGetChildren(mode, hidden)
    \/ \E i \in 1..(MaxListLen + 1) : ListTake(i)
    \/ ListClear

SpecPath == InitPath /\ [][NextPath]_vars

\* Directory creation below the working directory: "p" is a directory, "f"
\* a file, "l" a link to nothing
A == <<"a">>
AB == <<"a", Slash, "b">>
ABC == <<"a", Slash, "b", Slash, "c">>
P == <<"p">>
Fl == <<"f">>

MkdirFs == (P :> "dir") @@ (Fl :> "file")

AssureDirs ==
    {<<>>, A, AB, ABC, <<"a", Slash, Slash, "b", Slash>>, Fl \o <<Slash, "x">>,
     <<"l">>, P}

AssurePrefixes == {P, Fl, <<"z">>}

MkdirPaths == {A, AB, P, Fl, <<"q", Slash, "r">>}

InitMkdir ==
    /\ build = "SKYOS32"
    /\ fs \in {MkdirFs, MkdirFs @@ (<<"l">> :> "link_dead")}
    /\ denied \in {{}, {AB}}
    /\ members = {}
    /\ openable = {}
    /\ IdleInit
    /\ SaveIdle

NextMkdir ==
    \/ \E p \in MkdirPaths : NodeMake(p)
    \/ NodeCreateDirectory
    \/ \E dir \in AssureDirs : AssureDirectoryExists(dir, FALSE, <<>>)
    \/ \E dir \in AssureDirs, prefix \in AssurePrefixes :
          AssureDirectoryExists(dir, TRUE, prefix)

SpecMkdir == InitMkdir /\ [][NextMkdir]_vars

\* The save manager: two names, one of them saved before
SaveLists == SeqsUpTo(SaveNames, MaxMembers)

InitSave ==
    /\ build = "SKYOS32"
    /\ fs = OnlyRoot
    /\ denied = {}
    /\ members = {}
    /\ openable = {}
    /\ IdleInit
    /\ error = "kUnknownError"
    /\ errorDesc = <<>>
    /\ lockedFiles = <<>>
    /\ saves \in {[n \in SaveNames |-> NoEntry],
                  [n \in SaveNames |-> IF n = <<"s">> THEN "old" ELSE NoEntry]}
    /\ sret = NoSret

NextSave ==
    \/ \E e \in ErrorCodes \ {"kNoError"} : SaveSetError(e, <<"e">>)
    \/ SaveClearError
    \/ SaveGetError
    \/ SaveGetErrorDesc
    \/ SavePopErrorDesc
    \/ \E lockedNames \in SaveLists : SaveUpdateSavefilesList(lockedNames)
    \/ \E name \in SaveNames, storageOk \in BOOLEAN : SaveRemoveSavefile(name, storageOk)
    \/ \E name \in SaveNames, storageOk \in BOOLEAN : SaveOpenForSaving(name, storageOk)
    \/ \E oldName \in SaveNames, newName \in SaveNames, storageOk \in BOOLEAN :
          SaveRenameSavefile(oldName, newName, storageOk)

SpecSave == InitSave /\ [][NextSave]_vars

---------------------------------------------------------------------------
(* Claims.                                                                 *)

OpenedByName == call.op = "File::open(name)" /\ ~aborted
FileOpens == {"File::open(name)", "File::open(node)", "File::open(stream)"}
DumpOpens == {"DumpFile::open(name)", "DumpFile::open(node)"}

\* C1: File::open(filename, archive) asks the archive for the exact name
\* first, asks for filename + "." only when the exact lookup gave no stream,
\* asks for nothing else, and returns true exactly when one of these two
\* lookups gave a stream (the handle is then bound); otherwise false.
C1_OpenTriesExactThenDot ==
    OpenedByName =>
        /\ Len(trace) \in {1, 2}
        /\ \A i \in 1..Len(trace) :
              /\ trace[i].fn = "createReadStreamForMember"
              /\ trace[i].ok = (trace[i].arg \in openable)
        /\ trace[1].arg = call.name
        /\ (Len(trace) = 2) = ~trace[1].ok
        /\ Len(trace) = 2 => trace[2].arg = Append(call.name, Dot)
        /\ ret = RetBool(\E i \in 1..Len(trace) : trace[i].ok)
        /\ ret.b = ~IsNull(fHandle)

\* the exact name is missing, the name with a trailing dot is found
C1_Witness ==
    /\ OpenedByName
    /\ Len(trace) = 2
    /\ trace[2].ok
    /\ ret.b
    /\ ~IsNull(fHandle)

\* C2: File::exists(filename) is true exactly when hasFile(filename) or
\* hasFile(filename + ".") is, the exact name asked first and the name with
\* a trailing dot the only fallback; other variations of the name in the
\* containers do not make it true.
C2_ExistsTriesExactThenDot ==
    call.op = "File::exists" =>
        /\ ret = RetBool(call.name \in members \/ Append(call.name, Dot) \in members)
        /\ Len(trace) \in {1, 2}
        /\ \A i \in 1..Len(trace) : trace[i].fn = "hasFile"
        /\ trace[1] = Ev("hasFile", call.name, call.name \in members)
        /\ (Len(trace) = 2) = (call.name \notin members)
        /\ Len(trace) = 2 =>
              trace[2] = Ev("hasFile", Append(call.name, Dot),
                            Append(call.name, Dot) \in members)

\* only a variation with two trailing dots is present, and the answer is false
C2_Witness ==
    /\ call.op = "File::exists"
    /\ call.name # <<>>
    /\ Append(Append(call.name, Dot), Dot) \in members
    /\ ~ret.b

BoundIds == {h.id : h \in {s \in {fHandle, dHandle} : ~IsNull(s)}}

\* C3: a handle holds at most one stream: while the process runs the live
\* streams are exactly the one the File is bound to and the one the DumpFile
\* is bound to, and every open variant called on a handle that is already
\* open ends the process with the handle still bound to the stream it had.
C3_OneStreamPerHandle ==
    [][/\ ~aborted' =>
            /\ live' = {h.id : h \in {s \in {fHandle', dHandle'} : ~IsNull(s)}}
            /\ (~IsNull(fHandle') /\ ~IsNull(dHandle')) => fHandle'.id # dHandle'.id
       /\ (call'.op \in FileOpens /\ ~IsNull(fHandle)) =>
            (aborted' /\ fHandle' = fHandle /\ fName' = fName)
       /\ (call'.op \in DumpOpens /\ ~IsNull(dHandle)) =>
            (aborted' /\ dHandle' = dHandle)
      ]_vars

\* a stream was handed to an open File: the process ended, the File kept its own
C3_Witness ==
    /\ aborted
    /\ call.op = "File::open(stream)"
    /\ call.flag
    /\ ~IsNull(fHandle)
    /\ Cardinality(live) > Cardinality(BoundIds)

ReadAccessors == {"File::err", "File::clearErr", "File::eos", "File::pos",
                  "File::size", "File::seek", "File::read"}
WriteAccessors == {"DumpFile::err", "DumpFile::clearErr", "DumpFile::write",
                   "DumpFile::flush", "DumpFile::pos", "DumpFile::seek",
                   "DumpFile::size"}

\* what the stream itself answers to the call c, and the stream after
StreamAnswer(c, s) ==
    CASE c.op \in {"File::err", "DumpFile::err"} -> Stream_err(s)
      [] c.op \in {"File::clearErr", "DumpFile::clearErr"} -> Stream_clearErr(s)
      [] c.op = "File::eos" -> Stream_eos(s)
      [] c.op \in {"File::pos", "DumpFile::pos"} -> Stream_pos(s)
      [] c.op \in {"File::size", "DumpFile::size"} -> Stream_size(s)
      [] c.op \in {"File::seek", "DumpFile::seek"} -> Stream_seek(s, c.a, c.w)
      [] c.op = "File::read" -> Stream_read(s, c.a)
      [] c.op = "DumpFile::write" -> Stream_write(s, c.a)
      [] c.op = "DumpFile::flush" -> Stream_flush(s)

\* C4: each of err, clearErr, eos, pos, size, seek and read ends the process
\* when the File is not open, and on an open File returns what the stream's
\* own method returns and leaves the stream as that method leaves it.
C4_ReadAccessorsDelegate ==
    [][call'.op \in ReadAccessors =>
          IF IsNull(fHandle)
          THEN aborted' /\ fHandle' = fHandle
          ELSE /\ ~aborted'
               /\ ret' = StreamAnswer(call', fHandle).ret
               /\ fHandle' = StreamAnswer(call', fHandle).stream
      ]_vars

\* read() on a File that was open once and is closed now
C4_Witness ==
    /\ aborted
    /\ call.op = "File::read"
    /\ fName # <<>>
    /\ IsNull(fHandle)

\* C5: each of err, clearErr, write, flush, pos, seek and size of a DumpFile
\* ends the process when the DumpFile is not open, and on an open DumpFile
\* returns what the stream's own method returns.
C5_WriteAccessorsDelegate ==
    [][call'.op \in WriteAccessors =>
          IF IsNull(dHandle)
          THEN aborted'
          ELSE /\ ~aborted'
               /\ ret' = StreamAnswer(call', dHandle).ret
               /\ dHandle' = StreamAnswer(call', dHandle).stream
      ]_vars

\* C6: close() leaves the handle not open, whatever it was before, and on a
\* closed handle changes nothing else; isOpen() tells whether a stream is
\* bound; an open on a closed handle, after any number of closes, never ends
\* the process, binds a stream exactly when it returns true, and by name does
\* return true whenever the resolver opens the name or the name with a dot.
C6_CloseMakesReusable ==
    [][/\ call'.op = "File::close" =>
           /\ IsNull(fHandle') /\ ~aborted' /\ fHandle.id \notin live'
           /\ IsNull(fHandle) => UNCHANGED <<fsVars, archVars, luaVars, saveVars, nodeVars, fName,
                                             dHandle, live>>
       /\ call'.op = "DumpFile::close" =>
           /\ IsNull(dHandle') /\ ~aborted' /\ dHandle.id \notin live'
           /\ IsNull(dHandle) => UNCHANGED <<fsVars, archVars, luaVars, saveVars, nodeVars, fHandle,
                                             fName, live>>
       /\ call'.op = "File::isOpen" => ret' = RetBool(~IsNull(fHandle))
       /\ call'.op = "DumpFile::isOpen" => ret' = RetBool(~IsNull(dHandle))
       /\ (call'.op \in FileOpens /\ IsNull(fHandle) /\ call'.name # <<>>) =>
           /\ ~aborted'
           /\ ret' = RetBool(~IsNull(fHandle'))
           /\ (call'.op = "File::open(name)"
               /\ {call'.name, Append(call'.name, Dot)} \cap openable # {}) => ret'.b
       /\ (call'.op \in DumpOpens /\ IsNull(dHandle) /\ call'.name # <<>>) =>
           /\ ~aborted'
           /\ ret' = RetBool(~IsNull(dHandle'))
      ]_vars

\* a File that was open is closed, and the stream it had is gone
C6_Witness ==
    /\ call.op = "File::close"
    /\ fName # <<>>
    /\ IsNull(fHandle)
    /\ live = BoundIds

\* the positions of filename, counted from 0, where a separator ends a prefix
SepPositions(filename) ==
    {i \in 1..(Len(filename) - 1) : filename[i + 1] \in {Slash, Backslash}}

\* the directories the path of filename implies, as nodes name them
IntermediateDirs(filename) ==
    {normalizePath(Erase(filename, i), Slash) : i \in SepPositions(filename)}

OpenedDump == call.op = "DumpFile::open(name)" /\ ~aborted

\* C7: DumpFile::open(filename, true) tries to create every intermediate
\* directory of the path that does not exist yet and no other, the shorter
\* before the longer, and only then asks for the write stream; when every
\* creation succeeded, every intermediate directory exists once the stream
\* is asked for.  DumpFile::open(filename, false) creates no directory.
C7_BootstrapBeforeOpen ==
    [][(call'.op = "DumpFile::open(name)" /\ ~aborted') =>
        LET cds == SelectSeq(trace', IsCreate)
            dirs == IntermediateDirs(call'.name)
        IN  IF call'.flag
            THEN /\ \A q \in dirs : ~Resolves(fs, q) => \E k \in 1..Len(cds) : cds[k].arg = q
                 /\ \A k \in 1..Len(cds) : cds[k].arg \in dirs /\ ~Resolves(fs, cds[k].arg)
                 /\ \A j, k \in 1..Len(cds) : j < k => Len(cds[j].arg) <= Len(cds[k].arg)
                 /\ \A k \in 1..Len(trace') :
                       trace'[k].fn = "createWriteStream" => k = Len(trace')
                 /\ (\A k \in 1..Len(cds) : cds[k].ok) =>
                       \A q \in dirs : /\ Resolves(fs', q)
                                       /\ ~Resolves(fs, q) => fs'[q] = "dir"
            ELSE /\ \A k \in 1..Len(trace') : trace'[k].fn = "createWriteStream"
                 /\ \A p \in DOMAIN fs' \ DOMAIN fs : fs'[p] = "file"
      ]_vars

\* two nested directories were made, then the stream was opened
C7_Witness ==
    /\ OpenedDump
    /\ call.flag
    /\ Len(trace) = 9
    /\ trace[3] = Ev("createDirectory", <<"a">>, TRUE)
    /\ trace[7] = Ev("createDirectory", <<"a", Slash, "b">>, TRUE)
    /\ trace[9] = Ev("createWriteStream", <<"a", Slash, "b", Slash, "c">>, TRUE)
    /\ ret.b

FailedCreate(tr, k) == tr[k].fn = "createDirectory" /\ ~tr[k].ok

LaterPrefixesChecked(tr, k, dirs) ==
    \A q \in dirs : Len(q) > Len(tr[k].arg) =>
        \E j \in (k + 1)..Len(tr) : tr[j].fn = "exists" /\ tr[j].arg = q

\* C8 as stated: after a directory could not be created the remaining
\* prefixes are still processed, the write stream is still asked for, and the
\* result is true exactly when that request gave a stream.
C8_FailureStillOpens ==
    [][(call'.op = "DumpFile::open(name)" /\ ~aborted' /\ call'.flag) =>
        \A k \in 1..Len(trace') : FailedCreate(trace', k) =>
            /\ LaterPrefixesChecked(trace', k, IntermediateDirs(call'.name))
            /\ trace'[Len(trace')].fn = "createWriteStream"
            /\ ret' = RetBool(trace'[Len(trace')].ok)
      ]_vars

\* C8, amended: after a directory could not be created the remaining prefixes
\* are still processed and DumpFile::open(node) still runs: it asks for the
\* write stream unless the target node is a directory, and the result is true
\* exactly when a write stream was given, which the handle then holds.
C8_FailureStillReachesOpenNode ==
    [][(call'.op = "DumpFile::open(name)" /\ ~aborted' /\ call'.flag) =>
        \A k \in 1..Len(trace') : FailedCreate(trace', k) =>
            LET last == trace'[Len(trace')]
                target == MakeNode(build, fs', call'.name)
            IN  /\ LaterPrefixesChecked(trace', k, IntermediateDirs(call'.name))
                /\ (last.fn = "createWriteStream") = ~target.isDirectory
                /\ ret' = RetBool(last.fn = "createWriteStream" /\ last.ok)
                /\ ret'.b = ~IsNull(dHandle')
      ]_vars

\* a directory could not be made and the file was opened all the same
C8_Witness ==
    /\ OpenedDump
    /\ call.flag
    /\ \E k \in 1..Len(trace) : FailedCreate(trace, k)
    /\ trace[Len(trace)].fn = "createWriteStream"
    /\ ret.b
    /\ ~IsNull(dHandle)

Listed == call.op = "getChildren" /\ ~aborted

\* the entries a getChildren step put into the list
Added(before, after) == SubSeq(after, Len(before) + 1, Len(after))

\* C9: getChildren with includeHidden = false puts no entry into the list
\* whose display name starts with '.', and whatever includeHidden is it puts
\* in no entry named "." or "..".
C9_HiddenAndDotEntries ==
    [][(call'.op = "getChildren" /\ ~aborted') =>
        \A k \in 1..Len(Added(list, list')) :
            LET name == Added(list, list')[k].displayName
            IN  /\ name \notin {<<Dot>>, <<Dot, Dot>>}
                /\ ~call'.flag => CharAt(name, 0) # Dot
      ]_vars

\* a directory holding "a" and ".h" was listed without hidden entries: only "a"
C9_Witness ==
    /\ Listed
    /\ call.name = D
    /\ ~call.flag
    /\ call.w = "kListAll"
    /\ ret.b
    /\ Len(list) = 1
    /\ list[1].displayName = <<"a">>

\* the kinds of entry a mode lets through
ModeAllows(mode, kind) ==
    \/ mode = "kListAll"
    \/ mode = "kListFilesOnly" /\ kind = "file"
    \/ mode = "kListDirectoriesOnly" /\ kind = "dir"

\* C10: getChildren returns false exactly when the directory could not be
\* opened, and then the list is what it was; when it returns true, also for
\* an empty directory, the list is what it was followed by entries of the
\* directory, each once, every plain file and directory the mode allows
\* whose name does not start with '.' among them.
C10_FalseOnlyWhenNotOpened ==
    [][(call'.op = "getChildren" /\ ~aborted') =>
        LET added == Added(list, list')
            names == ChildNames(fs, node.path)
        IN  /\ ret' = RetBool(HostOpendir(fs, denied, node.path))
            /\ ~ret'.b => list' = list
            /\ ret'.b =>
                /\ Len(list') >= Len(list)
                /\ SubSeq(list', 1, Len(list)) = list
                /\ \A k \in 1..Len(added) :
                      /\ added[k].displayName \in names
                      /\ added[k].path = EntryPath(node.path, added[k].displayName)
                /\ \A j, k \in 1..Len(added) : j # k => added[j].path # added[k].path
                /\ \A name \in names :
                      (/\ CharAt(name, 0) # Dot
                       /\ fs[EntryPath(node.path, name)] \in {"file", "dir"}
                       /\ ModeAllows(call'.w, fs[EntryPath(node.path, name)]))
                      => \E k \in 1..Len(added) : added[k].displayName = name
      ]_vars

\* a directory that could not be opened: false, and the list kept its entry
C10_Witness ==
    /\ Listed
    /\ call.name = U
    /\ ~ret.b
    /\ Len(list) = 1

\* the position of the last '/' of a path that has one
LastSlash(p) ==
    CHOOSE k \in 1..Len(p) : p[k] = Slash /\ \A j \in (k + 1)..Len(p) : p[j] # Slash

\* a path without its final component: what is left of the last '/', or the root
WithoutLastComponent(p) ==
    IF LastSlash(p) = 1 THEN Root ELSE SubSeq(p, 1, LastSlash(p) - 1)

\* C11: getParent returns no node for "/" and for a path without a '/', and
\* for every other path a node whose path is that path without its final
\* component.
C11_ParentStripsLastComponent ==
    [][call'.op = "getParent" =>
          IF node.path = Root \/ ~Contains(node.path, Slash)
          THEN ~ret'.b
          ELSE ret'.b /\ node'.path = WithoutLastComponent(node.path)
      ]_vars

\* the parent of "d/k" was asked for and is "d"
C11_Witness ==
    /\ call.op = "getParent"
    /\ call.name = D \o <<Slash, "k">>
    /\ ret.b
    /\ node.path = D

\* C12: when getParent gave a node that is a directory, getChild on it with
\* the last component of the path getParent started from gives a node with
\* that path again.
C12_ParentChildRoundTrip ==
    [][(/\ call.op = "getParent"
        /\ ret.b
        /\ node.isDirectory
        /\ call'.op = "getChild"
        /\ call'.name = lastPathComponent(call.name, Slash))
       => ~aborted' /\ node'.path = call.name
      ]_vars

\* getChild("a") on the directory "/r" made the node "/r/a"
C12_Witness ==
    /\ call.op = "getChild"
    /\ call.name = <<"a">>
    /\ ~aborted
    /\ node.path = <<Slash, "r", Slash, "a">>
    /\ node.isValid

\* parent and name put together with one '/' between them
JoinedByOneSlash(parent, n) ==
    IF parent[Len(parent)] = Slash THEN parent \o n ELSE parent \o <<Slash>> \o n

\* C13: getChild(name) on a directory with a name without '/' makes the new
\* node from the parent's path and the name with one '/' between them, none
\* added after a parent path that ends in '/'; on a node that is no directory
\* or with a name that holds a '/' it ends the process and returns no node.
C13_ChildJoinsWithOneSlash ==
    [][call'.op = "getChild" =>
          IF ~node.isDirectory \/ Contains(call'.name, Slash)
          THEN aborted' /\ node' = node
          ELSE /\ ~aborted'
               /\ trace' = <<Ev("makeNode", JoinedByOneSlash(node.path, call'.name), TRUE)>>
               /\ node'.path = normalizePath(JoinedByOneSlash(node.path, call'.name), Slash)
      ]_vars

\* getChild("k") on the root: the node is made from "/k", not from "//k"
C13_Witness ==
    /\ call.op = "getChild"
    /\ call.name = <<"k">>
    /\ ~aborted
    /\ trace = <<Ev("makeNode", <<Slash, "k">>, TRUE)>>
    /\ node.path = <<Slash, "k">>

\* the nodes the caller holds
HeldNodes == (IF node.made THEN {node} ELSE {}) \cup {list[i] : i \in 1..Len(list)}

\* C14: every node made from a string, by getChild, by getParent or by
\* getChildren holds a path that is not empty and that normalizePath leaves as
\* it is; making a node from the empty string ends the process.
C14_StoredPathCanonicalNonEmpty ==
    /\ \A n \in HeldNodes : n.path # <<>> /\ normalizePath(n.path, Slash) = n.path
    /\ (call.op = "YuzaFilesystemNode" /\ call.name = <<>>) => aborted

\* the part of C14 the constructor keeps: the stored path is a fixed point of
\* normalizePath, and the empty string is refused
StoredPathCanonical ==
    /\ \A n \in HeldNodes : normalizePath(n.path, Slash) = n.path
    /\ (call.op = "YuzaFilesystemNode" /\ call.name = <<>>) => aborted

\* what a metadata probe of path p reports: it is there and a directory
ProbedDirectory(f, p) == p \in DOMAIN f /\ f[p] \in {"dir", "link_dir"}

\* C15: createDirectory returns true only if a probe of the node's path made
\* after the call finds a directory; when the creation call fails the result
\* is what that probe finds, not the flags the node got when it was made; and
\* nothing but the node's own path is created, nothing at all when the
\* directory above it is missing.
C15_ResultFromFreshProbe ==
    [][call'.op = "createDirectory" =>
          /\ ret'.b => ProbedDirectory(fs', node.path)
          /\ ~trace'[1].ok => ret'.b = ProbedDirectory(fs', node.path)
          /\ DOMAIN fs' \subseteq DOMAIN fs \cup {node.path}
          /\ ~IsDirAt(fs, DirName(node.path)) => fs' = fs
      ]_vars

\* the path and the paths it is cut to at its separators, from the second
\* character on
SegmentPrefixes(p) ==
    {SubSeq(p, 1, k - 1) : k \in {j \in 2..Len(p) : p[j] = Slash}}
    \cup (IF p \in {<<>>, Root} THEN {} ELSE {p})

\* the prefix handed to the call that is in the state, when it has one
PrefixOf(c, tr) == IF c.flag THEN tr[1].arg ELSE <<>>

AssureCalled == call.op = "assureDirectoryExists" /\ ~aborted

\* C16: when assureDirectoryExists returned true, the same call made again
\* right after it returns true too, changes nothing in the filesystem and
\* finds every directory of the chain in place.
C16_AssureIdempotent ==
    [][(/\ AssureCalled
        /\ ret.b
        /\ call' = call
        /\ PrefixOf(call', trace') = PrefixOf(call, trace))
       => /\ ret'.b
          /\ fs' = fs
          /\ \A q \in SegmentPrefixes(AssurePath(call.name, call.flag, PrefixOf(call, trace))) :
                ProbedDirectory(fs', q)
      ]_vars

\* "a/b/c" was assured with all three directories already there
C16_Witness ==
    /\ AssureCalled
    /\ call.name = ABC
    /\ ~call.flag
    /\ ret.b
    /\ Len(trace) = 3
    /\ \A k \in 1..3 : ~trace[k].ok

\* C17: assureDirectoryExists returns true exactly when the prefix, if one is
\* given, is a directory and every segment prefix of the normalized path is a
\* directory afterwards, made by the call or there before; a prefix that is
\* missing or no directory fails with nothing created.
C17_TrueIffChainOfDirectories ==
    [][call'.op = "assureDirectoryExists" =>
          LET prefix == PrefixOf(call', trace')
              prefixGood == ~call'.flag \/ ProbedDirectory(fs, prefix)
              segs == SegmentPrefixes(AssurePath(call'.name, call'.flag, prefix))
          IN  /\ ret'.b = (prefixGood /\ \A q \in segs : ProbedDirectory(fs', q))
              /\ ~prefixGood => fs' = fs
              /\ DOMAIN fs' \subseteq DOMAIN fs \cup segs
      ]_vars

\* C17 for the calls without a prefix
AssureWithoutPrefix ==
    [][(call'.op = "assureDirectoryExists" /\ ~call'.flag) =>
          LET segs == SegmentPrefixes(AssurePath(call'.name, FALSE, <<>>))
          IN  /\ ret'.b = \A q \in segs : ProbedDirectory(fs', q)
              /\ DOMAIN fs' \subseteq DOMAIN fs \cup segs
      ]_vars

\* the operations that write to a save entry or take it away
SaveWriters == {"removeSavefile", "openForSaving", "renameSavefile"}

\* the names a call works on
NamesOf(c) == IF c.op = "renameSavefile" THEN {c.name, <<c.w>>} ELSE {c.name}

\* C18: removeSavefile, openForSaving and renameSavefile on a name that is in
\* the lock list return false or null, leave an error with a description
\* behind and change no stored entry; removeSavefile of a stored name that
\* the latest updateSavefilesList left out succeeds when the storage does.
C18_LockedNamesFailCleanly ==
    [][call'.op \in SaveWriters =>
          /\ (\E n \in NamesOf(call') : IsLocked(lockedFiles, n)) =>
                /\ ~ret'.b
                /\ error' # "kNoError"
                /\ errorDesc' # <<>>
                /\ saves' = saves
          /\ (/\ call'.op = "removeSavefile"
              /\ ~IsLocked(lockedFiles, call'.name)
              /\ saves[call'.name] # NoEntry
              /\ trace'[1].ok) =>
                /\ ret'.b
                /\ saves'[call'.name] = NoEntry
      ]_vars

\* removeSavefile on a stored, locked name failed and the entry is still there
C18_Witness ==
    /\ call.op = "removeSavefile"
    /\ IsLocked(lockedFiles, call.name)
    /\ saves[call.name] # NoEntry
    /\ ~ret.b
    /\ errorDesc = LockedDesc

\* the names of a list
NamesIn(lst) == {lst[i] : i \in 1..Len(lst)}

\* C19: an updateSavefilesList call leaves exactly the names of its list
\* locked, whatever was locked before, and no other call changes the locks.
C19_LocksReplaced ==
    [][IF call'.op = "updateSavefilesList"
       THEN NamesIn(lockedFiles') = {trace'[i].arg : i \in 1..Len(trace')}
       ELSE lockedFiles' = lockedFiles
      ]_vars

\* "s" was locked by an earlier update and the latest one, naming "t", freed it
C19_Witness ==
    /\ call.op = "updateSavefilesList"
    /\ trace = <<Ev("locked", <<"t">>, TRUE)>>
    /\ ~IsLocked(lockedFiles, <<"s">>)
    /\ IsLocked(lockedFiles, <<"t">>)
    /\ saves[<<"s">>] = "new"

\* C20: clearError leaves kNoError and an empty description; popErrorDesc
\* returns the description there was and leaves the same cleared state;
\* setError stores its code and description; getError and getErrorDesc
\* return the stored code and description and change neither.
C20_ErrorStateAccessors ==
    [][/\ call'.op = "clearError" => error' = "kNoError" /\ errorDesc' = <<>>
       /\ call'.op = "popErrorDesc" =>
             sret'.desc = errorDesc /\ error' = "kNoError" /\ errorDesc' = <<>>
       /\ call'.op = "setError" => error' = call'.w /\ errorDesc' = call'.name
       /\ call'.op = "getError" =>
             sret'.code = error /\ error' = error /\ errorDesc' = errorDesc
       /\ call'.op = "getErrorDesc" =>
             sret'.desc = errorDesc /\ error' = error /\ errorDesc' = errorDesc
      ]_vars

\* popErrorDesc handed out the description a failed operation left
C20_Witness ==
    /\ call.op = "popErrorDesc"
    /\ sret.desc = LockedDesc
    /\ error = "kNoError"
    /\ errorDesc = <<>>

---------------------------------------------------------------------------
(* Claims about the classification of directory entries.                   *)

\* a getChildren call that got the directory open
ListedOpen == call'.op = "getChildren" /\ ~aborted' /\ ret'.b

\* the d_type the classification of an entry of this call went by
HintOf(name) ==
    IF build = "D_TYPE" /\ call'.a = 1 THEN HostDType(fs, node.path, name)
    ELSE "DT_UNKNOWN"

\* stat() of the path succeeds
Queryable(f, p) == p \in DOMAIN f /\ f[p] # "link_dead"

\* both flags of a node are what a query of its path says
FlagsFromQuery(f, n) ==
    /\ n.isValid = Queryable(f, n.path)
    /\ n.isDirectory = ProbedDirectory(f, n.path)

NameListed(name) ==
    \E k \in 1..Len(Added(list, list')) : Added(list, list')[k].displayName = name

\* C21: with includeHidden = true getChildren leaves out by name only "."
\* and "..": every other entry of the directory, names starting with two dots
\* among them, that is a plain file or directory the mode allows is listed.
C21_OnlyDotAndDotDotSkipped ==
    [][(ListedOpen /\ call'.flag) =>
        \A name \in ChildNames(fs, node.path) :
            (/\ fs[EntryPath(node.path, name)] \in {"file", "dir"}
             /\ ModeAllows(call'.w, fs[EntryPath(node.path, name)]))
            => NameListed(name)
      ]_vars

\* C22: getChildren lists no entry whose metadata query fails, a symbolic
\* link whose target cannot be queried among them, and such an entry does
\* not make the call fail: the directory opened, the call returns true and
\* the plain entries the mode allows are listed.
C22_UnqueryableEntriesLeftOut ==
    [][(call'.op = "getChildren" /\ ~aborted' /\ HostOpendir(fs, denied, node.path)) =>
        /\ ret' = RetBool(TRUE)
        /\ \A k \in 1..Len(Added(list, list')) :
              Queryable(fs, Added(list, list')[k].path)
        /\ \A name \in ChildNames(fs, node.path) :
              (/\ CharAt(name, 0) # Dot
               /\ fs[EntryPath(node.path, name)] \in {"file", "dir"}
               /\ ModeAllows(call'.w, fs[EntryPath(node.path, name)]))
              => NameListed(name)
      ]_vars

\* C23: getChildren classifies an entry by its type hint: a hint of a plain
\* file or directory is taken as it is, a hint of a symbolic link takes the
\* directory flag from a query of the link's target, and without a hint
\* both flags are what a query of the entry says.
C23_ThreeTierClassification ==
    [][ListedOpen =>
        \A k \in 1..Len(Added(list, list')) :
            LET e == Added(list, list')[k]
                hint == HintOf(e.displayName)
            IN  IF hint \in {"DT_REG", "DT_DIR"}
                THEN e.isValid /\ e.isDirectory = (hint = "DT_DIR")
                ELSE IF hint = "DT_LNK"
                THEN e.isDirectory = ProbedDirectory(fs, e.path)
                ELSE FlagsFromQuery(fs, e)
      ]_vars

\* the entries of the directory a both-mode listing is to hold
ValidNotSkipped(hidden) ==
    {name \in ChildNames(fs, node.path) :
        /\ ~SkipEntry(name, hidden)
        /\ ClassifyEntry(build, fs, node,
                         [d_name |-> name, d_type |-> HintOf(name)]).isValid}

\* C24: the mode is applied to the classified entry: a files-only listing
\* adds no entry flagged directory, a directories-only listing adds only
\* entries flagged directory, and a listing of both adds every valid entry
\* that its name does not exclude, once.
C24_ModeAppliedAfterClassification ==
    [][ListedOpen =>
        LET added == Added(list, list')
        IN  /\ call'.w = "kListFilesOnly" =>
                \A k \in 1..Len(added) : ~added[k].isDirectory
            /\ call'.w = "kListDirectoriesOnly" =>
                \A k \in 1..Len(added) : added[k].isDirectory
            /\ call'.w = "kListAll" =>
                /\ {added[k].displayName : k \in 1..Len(added)}
                      = ValidNotSkipped(call'.flag)
                /\ \A j, k \in 1..Len(added) :
                      j # k => added[j].displayName # added[k].displayName
      ]_vars

\* a directories-only listing with hidden entries of a directory holding the
\* file "a" and the directory ".h": only ".h"
C24_Witness ==
    /\ Listed
    /\ call.name = D
    /\ call.w = "kListDirectoriesOnly"
    /\ call.flag
    /\ ret.b
    /\ Len(list) = 1
    /\ list[1].displayName = <<Dot, "h">>
    /\ list[1].isDirectory

Constructed == call'.op = "YuzaFilesystemNode" /\ ~aborted'

\* C25 as stated: every node the constructor or getChildren makes has its
\* flags from a query of its path, valid exactly when the query succeeded
\* and directory exactly when it reported a directory, so none is flagged
\* directory and invalid.
C25_FlagsFromQuery ==
    [][/\ Constructed => FlagsFromQuery(fs, node')
       /\ ListedOpen =>
            \A k \in 1..Len(Added(list, list')) :
                FlagsFromQuery(fs, Added(list, list')[k])
      ]_vars

\* the root node of the SKYOS32 build takes its flags from no query
FixedRoot(p) == build = "SKYOS32" /\ p = Root

\* C25, amended: every node the constructor makes for a path other than the
\* SKYOS32 root, and every entry getChildren classifies without a type hint,
\* has its flags from a query of its path: valid exactly when the query
\* succeeded, directory exactly when it reported a directory, so none of
\* them is flagged directory and invalid.  The SKYOS32 root is flagged
\* directory and invalid without a query, and an entry classified by a type
\* hint is flagged valid by the hint.
C25_QueriedNodesFlagsFromQuery ==
    [][/\ Constructed =>
            IF FixedRoot(call'.name)
            THEN node'.isDirectory /\ ~node'.isValid
            ELSE FlagsFromQuery(fs, node') /\ (node'.isDirectory => node'.isValid)
       /\ ListedOpen =>
            \A k \in 1..Len(Added(list, list')) :
                LET e == Added(list, list')[k]
                IN  IF HintOf(e.displayName) = "DT_UNKNOWN"
                    THEN FlagsFromQuery(fs, e) /\ (e.isDirectory => e.isValid)
                    ELSE e.isValid
      ]_vars

\* without type hints a link to a directory was listed as the directory the
\* query found, and the dangling link beside it was left out
C25_Witness ==
    /\ Listed
    /\ build = "NO_D_TYPE"
    /\ call.name = M
    /\ call.w = "kListAll"
    /\ ret.b
    /\ Len(list) = 1
    /\ list[1].displayName = <<"s">>
    /\ list[1].isValid
    /\ list[1].isDirectory

---------------------------------------------------------------------------
(* Claims about File::exists against File::open.                           *)

\* C26: over a resolver whose hasFile and createReadStreamForMember agree on
\* every name, File::exists(name) and File::open(name) on a closed handle give
\* the same answer for every name that is not empty, a name found only with
\* a trailing dot included.
C26_ExistsAgreesWithOpen ==
    [][(members = openable /\ call'.name # <<>> /\ IsNull(fHandle)) =>
        /\ (call'.op = "File::open(name)" /\ ~aborted') =>
              ret'.b = File_exists(call'.name).found
        /\ call'.op = "File::exists" =>
              ret'.b = File_resolve(call'.name).found
      ]_vars

\* a name the resolver holds only with a trailing dot was opened
C26_Witness ==
    /\ call.op = "File::open(name)"
    /\ ~aborted
    /\ members = openable
    /\ call.name # <<>>
    /\ call.name \notin members
    /\ Append(call.name, Dot) \in members
    /\ ret.b
    /\ ~IsNull(fHandle)

---------------------------------------------------------------------------
(* Claims about ownership.                                                 *)

\* how many of the first k events of tr are successful calls of fn
CountOf(tr, fn, k) == Cardinality({j \in 1..k : tr[j].fn = fn /\ tr[j].ok})

\* every acquire in tr is followed by its release before the next acquire,
\* no release comes without one, and nothing is held at the end
Balanced(tr, acquire, release) ==
    /\ \A k \in 0..Len(tr) :
          /\ CountOf(tr, release, k) <= CountOf(tr, acquire, k)
          /\ CountOf(tr, acquire, k) <= CountOf(tr, release, k) + 1
    /\ CountOf(tr, release, Len(tr)) = CountOf(tr, acquire, Len(tr))
    /\ \A k \in 1..Len(tr) : tr[k].fn = release =>
          \E j \in 1..(k - 1) :
              /\ tr[j].fn = acquire /\ tr[j].ok /\ tr[j].arg = tr[k].arg
              /\ \A i \in (j + 1)..(k - 1) : tr[i].fn \notin {acquire, release}

BoundAfter == {h.id : h \in {s \in {fHandle', dHandle'} : ~IsNull(s)}}

\* C27: nothing is leaked and nothing is released twice.  While the process
\* runs a stream is live exactly as long as a File or a DumpFile is bound to
\* it: a step allocates only the stream it binds, releases only the stream it
\* unbinds, and a destructor leaves its handle without a stream; getChildren
\* closes the directory it opened once, before it returns; and the createPath
\* loop of DumpFile::open deletes each node it made once, before it makes the next.
C27_NothingLeakedOrReleasedTwice ==
    [][~aborted' =>
        /\ live' = BoundAfter
        /\ live' \ live = BoundAfter \ BoundIds
        /\ live \ live' = BoundIds \ BoundAfter
        /\ call'.op = "File::~File" => IsNull(fHandle') /\ fHandle.id \notin live'
        /\ call'.op = "DumpFile::~DumpFile" => IsNull(dHandle') /\ dHandle.id \notin live'
        /\ call'.op = "getChildren" =>
              /\ Balanced(trace', "opendir", "closedir")
              /\ CountOf(trace', "opendir", Len(trace')) = (IF ret'.b THEN 1 ELSE 0)
        /\ call'.op = "DumpFile::open(name)" =>
              /\ Balanced(trace', "makeFileNodePath", "delete")
              /\ CountOf(trace', "makeFileNodePath", Len(trace'))
                    = Cardinality({k \in 1..Len(trace') : trace'[k].fn = "exists"})
      ]_vars

\* the createPath loop went over a prefix that was there and one that was
\* not, both nodes were deleted, and the DumpFile got its stream
C27_Witness ==
    /\ call.op = "DumpFile::open(name)"
    /\ ~aborted
    /\ call.flag
    /\ call.name = <<"a", Slash, "f">>
    /\ trace = <<Ev("makeFileNodePath", <<"a">>, TRUE), Ev("exists", <<"a">>, TRUE),
                 Ev("delete", <<"a">>, TRUE),
                 Ev("createWriteStream", <<"a", Slash, "f">>, TRUE)>>
    /\ live = {dHandle.id}
    /\ IsNull(fHandle)

---------------------------------------------------------------------------
(* Claims about opens that fail.                                           *)

---------------------------------------------------------------------------
(* Claims about the order of the directory creations.                      *)

IsMkdir(e) == e.fn = "mkdir"

\* C29: assureDirectoryExists comes to an end after at most one creation
\* attempt for each segment of the path.  The attempts go from the shortest
\* prefix of the path to the whole path and skip none; an attempt fails when
\* mkdir failed and the path is no directory; the call returns false at the
\* first attempt that fails and makes no deeper one, and it returns true only
\* after every segment was attempted.  Nothing that was in the filesystem is
\* removed or changed, and the directories made before a failure stay.
C29_ShortestPrefixFirst ==
    [][call'.op = "assureDirectoryExists" =>
        LET mks == SelectSeq(trace', IsMkdir)
            segs == SegmentPrefixes(AssurePath(call'.name, call'.flag,
                                               PrefixOf(call', trace')))
            Failing(k) == ~mks[k].ok /\ ~ProbedDirectory(fs, mks[k].arg)
        IN  /\ Len(mks) <= Cardinality(segs)
            /\ \A k \in 1..Len(mks) :
                  /\ mks[k].arg \in segs
                  /\ \A q \in segs : Len(q) < Len(mks[k].arg) =>
                        \E j \in 1..(k - 1) : mks[j].arg = q
            /\ \A j, k \in 1..Len(mks) : j < k => Len(mks[j].arg) < Len(mks[k].arg)
            /\ \A k \in 1..(Len(mks) - 1) : ~Failing(k)
            /\ ret'.b => /\ {mks[k].arg : k \in 1..Len(mks)} = segs
                         /\ \A k \in 1..Len(mks) : ~Failing(k)
            /\ ~ret'.b => IF Len(mks) = 0 THEN call'.flag ELSE Failing(Len(mks))
            /\ \A q \in DOMAIN fs : q \in DOMAIN fs' /\ fs'[q] = fs[q]
            /\ DOMAIN fs' \ DOMAIN fs = {mks[k].arg : k \in {j \in 1..Len(mks) : mks[j].ok}}
      ]_vars

\* "a/b/c": "a" was made, "a/b" could not be, "a/b/c" was not tried and
\* "a" is still there
C29_Witness ==
    /\ AssureCalled
    /\ call.name = ABC
    /\ ~call.flag
    /\ ~ret.b
    /\ trace = <<Ev("mkdir", A, TRUE), Ev("mkdir", AB, FALSE)>>
    /\ A \in DOMAIN fs
    /\ AB \notin DOMAIN fs

---------------------------------------------------------------------------
(* Claims about LuaFileProxy::write.                                       *)

Breaks == {"CR", "LF"}

IsComment(line) == Len(line) >= 2 /\ line[1] = "-" /\ line[2] = "-"

RECURSIVE KeptLines(_, _, _)
\* the characters of the lines of s that do not start with "--", in order;
\* cur is the line being read and out what was kept before it
KeptLines(s, cur, out) ==
    LET kept == IF IsComment(cur) THEN out ELSE out \o cur
    IN  IF s = <<>> THEN kept
        ELSE IF Head(s) \in Breaks THEN KeptLines(Tail(s), <<>>, kept)
        ELSE KeptLines(Tail(s), Append(cur, Head(s)), out)

NoBreak(c) == c \notin Breaks

\* every '\r' of s is the first half of a "\r\n"
BreaksAreLines(s) ==
    \A k \in 1..Len(s) : s[k] = "CR" => (k < Len(s) /\ s[k + 1] = "LF")

\* C30: LuaFileProxy::write comes to an end on every C string and reads no
\* byte behind the terminating NUL, also when the string ends in a "--" line
\* without a line break; the lines that start with "--" are dropped and the
\* others are appended to the settings in the order of the input.
C30_WriteStaysInsideInput ==
    [][call'.op = "LuaFileProxy::write" =>
        /\ ~aborted'
        /\ ret' = RetInt(Len(call'.name))
        /\ readTo' <= Len(call'.name)
        /\ Len(settings') >= Len(settings)
        /\ SubSeq(settings', 1, Len(settings)) = settings
        /\ BreaksAreLines(call'.name) =>
              SelectSeq(SubSeq(settings', Len(settings) + 1, Len(settings')), NoBreak)
                 = KeptLines(call'.name, <<>>, <<>>)
      ]_vars


====
